------------------------------ MODULE NetStack ------------------------------
(***************************************************************************)
(* The network stack (net/stack.c): a DHCP client, an ARP cache, ping, one *)
(* UDP exchange at a time and a DNS query over it.  One kernel thread owns *)
(* the stack; every operation blocks, polling the card and sleeping until  *)
(* its answer is heard or its time is over.  One step here is one frame    *)
(* handled, or what the owner does between two polls.                      *)
(*                                                                         *)
(* The network is the set of requests that were put on the wire.  The      *)
(* answer to any of them may be received at any poll: late, twice, out of  *)
(* order or never.  Peers are honest: an answer echoes what its request    *)
(* carried, and names (in a field the stack never reads) which request it  *)
(* answers.                                                                *)
(*                                                                         *)
(* An address is a number and a subnet a block of `size' of them; a host   *)
(* has one card, whose address is written as the host's own.  A deadline   *)
(* is the time left until it, in sleeps: expires > now() is left > 0.      *)
(* udp_peer stands for the peer's address and its port.  Counters are left *)
(* out, and so is the 401-round limit of a wait: each round sleeps 10 ms,  *)
(* so the limit in time is met first.                                      *)
(***************************************************************************)
EXTENDS Integers, FiniteSets

CONSTANTS
    Host,         \* addresses of the hosts that answer or ask
    Offers,       \* what DHCP servers offer or confirm, well formed or not
    Slots,        \* entries of the ARP cache (8)
    PollFrames,   \* frames one net_poll handles (32)
    LinkTime,     \* sleeps net_dhcp waits for a link (2000 ms)
    WaitTime,     \* sleeps wait_flag waits for an answer (1000 ms)
    ArpTime,      \* sleeps route waits for one ARP answer (500 ms)
    ArpLife,      \* sleeps an ARP entry lives (60 s)
    DhcpAttempts, \* 3
    ArpAttempts,  \* 2
    RandomBits,   \* width of random and xid (32)
    IdBits,       \* width of dns_id and echo_sequence (16)
    PortBits,     \* width of the random part of a UDP port (14)
    MaxOps        \* bound: operations begun in one behaviour

\* Answers are at most one turn of the generator old: a behaviour draws fewer
\* numbers than there are ports, and sends fewer pings than there are sequences.
ASSUME NumbersSuffice ==
    LET draws == IF DhcpAttempts > 2 THEN DhcpAttempts ELSE 2
    IN  MaxOps * draws < 2^PortBits /\ MaxOps * draws < 2^IdBits

ASSUME NetAssumption ==
    /\ \A o \in Offers : o.lease \in Nat
    /\ Slots \subseteq Nat
    /\ {PollFrames, LinkTime, WaitTime, ArpTime, ArpLife} \subseteq Nat
    /\ {DhcpAttempts, ArpAttempts} \subseteq Nat \ {0}
    /\ 2^RandomBits \in Nat \ {0}

VARIABLES
    stack,   \* struct net_stack
    op,      \* the operation the owner is in, and where it waits
    asked,   \* the requests on the wire
    out,     \* ghost: the IP packet or ARP reply the last step sent, if it sent one
    result   \* whether the last operation succeeded, and on its own answer

vars == <<stack, op, asked, out, result>>

None == 0
NoPacket == [kind |-> "none", source |-> None, dest |-> None, mac |-> None]
NoRequest == 0

-----------------------------------------------------------------------------
(* Addresses and offers.                                                   *)

Net(ip, c) == ip \div c.size
HostPart(ip, c) == ip % c.size

\* Not the all-zero nor the all-ones host of its subnet.
Assignable(ip, c) == HostPart(ip, c) \notin {0, c.size - 1}

\* dhcp_decode accepts an offer only when its addresses fit together.
OfferValid(o) ==
    /\ None \notin {o.address, o.gateway, o.dns, o.server}
    /\ o.lease # 0
    /\ Net(o.address, o) = Net(o.gateway, o)
    /\ Assignable(o.address, o)
    /\ Assignable(o.gateway, o)
    /\ o.address \notin {o.gateway, o.server, o.dns}
    /\ \A e \in {o.dns, o.server} :
          Net(e, o) = Net(o.address, o) => Assignable(e, o)

local_peer(s, ip) ==
    /\ ip # None
    /\ ip # s.configuration.address
    /\ Net(ip, s.configuration) = Net(s.configuration.address, s.configuration)
    /\ Assignable(ip, s.configuration)

\* Not our own address, nor one of our subnet that no host can have.
possible_peer(s, ip) ==
    \/ Net(ip, s.configuration) # Net(s.configuration.address, s.configuration)
    \/ local_peer(s, ip)

NextHop(c, dest) == IF Net(dest, c) = Net(c.address, c) THEN dest ELSE c.gateway

\* The linear congruential generator, at a reduced width: with these factors
\* it runs through all its values, as the code's does.
random_value(s) == (5 * s.random + 3) % 2^RandomBits

-----------------------------------------------------------------------------
(* The ARP cache and the lease.                                            *)

NoOffer == [server |-> None, address |-> None, gateway |-> None,
            dns |-> None, size |-> 1, lease |-> 0]
EmptyEntry == [ip |-> None, mac |-> None, left |-> 0]
EmptyCache == [i \in Slots |-> EmptyEntry]

Known(s, ip) == {i \in Slots : s.arp_cache[i].ip = ip /\ s.arp_cache[i].left > 0}
arp_lookup(s, ip) == Known(s, ip) # {}
MacFor(s, ip) == s.arp_cache[CHOOSE i \in Known(s, ip) : TRUE].mac

\* The slot of this address, or else the first of those that end soonest.
SlotFor(s, ip) ==
    LET same == {i \in Slots : s.arp_cache[i].ip = ip}
        soonest == {i \in Slots : \A j \in Slots :
                       s.arp_cache[i].left <= s.arp_cache[j].left}
        candidates == IF same # {} THEN same ELSE soonest
    IN  CHOOSE i \in candidates : \A j \in candidates : i <= j

arp_remember(s, ip, mac) ==
    [s EXCEPT !.arp_cache[SlotFor(s, ip)] = [ip |-> ip, mac |-> mac, left |-> ArpLife]]

\* What net_dhcp, and net_poll when the lease is over, throw away.
Unconfigured(s) ==
    [s EXCEPT !.configured = FALSE, !.configuration = NoOffer, !.left = 0,
              !.arp_cache = EmptyCache]

\* The start of net_poll.
Polled(s) == IF s.configured /\ s.left = 0 THEN Unconfigured(s) ELSE s

Less(n) == IF n = 0 THEN 0 ELSE n - 1
Older(e) == [e EXCEPT !.left = Less(@)]
Later(s) ==
    [s EXCEPT !.left = Less(@), !.arp_cache = [i \in Slots |-> Older(s.arp_cache[i])]]

-----------------------------------------------------------------------------
(* The handlers of one frame, as functions of the stack.                   *)

\* handle_arp; the reply to a request is ArpReply below.
handle_arp(s, m) ==
    IF /\ s.configured
       /\ m.target = s.configuration.address
       /\ local_peer(s, m.from)
       /\ m.ask \/ s.arp_waiting = m.from \/ arp_lookup(s, m.from)
    THEN arp_remember(s, m.from, m.from)
    ELSE s

\* The DHCP half of handle_udp: an offer or a confirmation that was decoded.
handle_dhcp(s, m) ==
    IF ~(m.xid = s.xid /\ OfferValid(m.offer))
    THEN s
    ELSE IF s.dhcp_state = 1 /\ m.type = "offer" /\ ~s.offered_ready
    THEN [s EXCEPT !.offered = m.offer, !.offered_ready = TRUE]
    ELSE IF /\ s.dhcp_state = 2 /\ m.type = "ack"
            /\ m.offer.server = s.offered.server
            /\ m.offer.address = s.offered.address
    THEN [s EXCEPT !.offered = m.offer, !.ack_ready = TRUE, !.heard = m.answers]
    ELSE s

\* The other half of handle_udp: the answer to net_udp_request.
handle_udp(s, m) ==
    IF s.udp_port # None /\ m.port = s.udp_port /\ m.from = s.udp_peer /\ ~s.udp_ready
    THEN [s EXCEPT !.udp_data = [id |-> m.id, good |-> m.good], !.udp_ready = TRUE,
                   !.heard = m.answers]
    ELSE s

\* Mutant: the sequence number of an echo reply is not compared.
handle_echo_AnySequence(s, m) ==
    IF s.echo_peer = m.from
    THEN [s EXCEPT !.echo_ready = TRUE, !.heard = m.answers]
    ELSE s

handle_echo(s, m) ==
    IF s.echo_peer = m.from /\ m.sequence = s.echo_sequence
    THEN [s EXCEPT !.echo_ready = TRUE, !.heard = m.answers]
    ELSE s

\* Mutant: the source of a packet is not looked at.
Reaches_AnySource(s, m) ==
    /\ s.configured
    /\ m.to = s.configuration.address

\* handle_ip for a packet that is not DHCP: it must be for our address, and
\* must not claim to come from an address of our subnet that no peer can have.
Reaches(s, m) ==
    /\ s.configured
    /\ m.to = s.configuration.address
    /\ possible_peer(s, m.from)

handle_ip(s, m) ==
    CASE m.type \in {"offer", "ack"} ->
             IF s.dhcp_state # 0 THEN handle_dhcp(s, m) ELSE s
      [] m.type = "udp" -> IF Reaches(s, m) THEN handle_udp(s, m) ELSE s
      [] m.type = "echo" -> IF Reaches(s, m) THEN handle_echo(s, m) ELSE s

-----------------------------------------------------------------------------
(* What the network can deliver.                                           *)

Answers(r) ==
    CASE r.type = "discover" ->
             {[type |-> "offer", xid |-> r.xid, offer |-> o, answers |-> r.number] :
                 o \in Offers}
      [] r.type = "request" ->
             {[type |-> "ack", xid |-> r.xid, offer |-> o, answers |-> r.number] :
                 o \in {o \in Offers : o.server = r.server /\ o.address = r.address}}
      [] r.type = "udp" ->
             {[type |-> "udp", from |-> r.dest, to |-> r.source, port |-> r.port,
               id |-> r.id, good |-> g, answers |-> r.number] : g \in BOOLEAN}
      [] r.type = "echo" ->
             {[type |-> "echo", from |-> r.dest, to |-> r.source,
               sequence |-> r.sequence, answers |-> r.number]}

-----------------------------------------------------------------------------
(* The owner's thread.                                                     *)

Init ==
    /\ stack = [configured |-> FALSE, configuration |-> NoOffer, offered |-> NoOffer,
                left |-> 0, arp_cache |-> EmptyCache, random |-> 0, xid |-> 0,
                dhcp_state |-> 0, arp_waiting |-> None, busy |-> FALSE,
                offered_ready |-> FALSE, ack_ready |-> FALSE, echo_ready |-> FALSE,
                udp_ready |-> FALSE, echo_peer |-> None, echo_sequence |-> 0,
                udp_peer |-> None, udp_port |-> None, dns_id |-> 0,
                udp_data |-> [id |-> 0, good |-> FALSE], heard |-> NoRequest]
    /\ op = [at |-> "idle", kind |-> "none", dest |-> None, attempt |-> 0,
             waited |-> 0, frames |-> 0, request |-> NoRequest, begun |-> 0]
    /\ asked = {}
    /\ out = NoPacket
    /\ result = [ok |-> FALSE, own |-> FALSE]

Number == Cardinality(asked) + 1

\* The step sends nothing and ends nothing.
Quiet == out' = NoPacket /\ UNCHANGED <<asked, result>>

\* The owner starts to poll, at a place where it has not waited yet.
Waiting(o, at) == [o EXCEPT !.at = at, !.waited = 0, !.frames = 0]

\* The operation returns to its caller, having cleared what its answer was
\* matched with.
Finish(s, ok) ==
    /\ stack' = [s EXCEPT !.busy = FALSE, !.dhcp_state = 0, !.arp_waiting = None,
                          !.echo_peer = None, !.udp_port = None, !.udp_peer = None,
                          !.heard = NoRequest]
    /\ op' = [op EXCEPT !.at = "idle", !.kind = "none", !.attempt = 0, !.waited = 0, !.frames = 0,
                        !.dest = None, !.request = NoRequest]
    /\ result' = [ok |-> ok, own |-> s.heard = op.request]
    /\ out' = NoPacket
    /\ UNCHANGED asked

\* Sleep of 10 ms, and the poll after it.
SleepAndPoll ==
    /\ stack' = Polled(Later(stack))
    /\ op' = [op EXCEPT !.waited = @ + 1, !.frames = 0]
    /\ Quiet

----
(* net_poll: one frame of it, while the owner polls.                       *)

Polling == op.at \in {"poll", "offer", "ack", "route", "arp", "echo", "udp"}

MoreFrames == Polling /\ op.frames < PollFrames

\* What a handler sends, the card may take or not; the handler does not care.
Sends(packet) == out' \in {packet, NoPacket}

Leased == {o.address : o \in Offers}

HearAnswer ==
    /\ MoreFrames
    /\ \E r \in asked : \E m \in Answers(r) : stack' = handle_ip(stack, m)
    /\ op' = [op EXCEPT !.frames = @ + 1]
    /\ Quiet

\* An ARP answer, or an ARP question, which the stack answers.
HearArp ==
    /\ MoreFrames
    /\ \E from \in Host, ask \in BOOLEAN, target \in Leased :
          LET m == [from |-> from, ask |-> ask, target |-> target]
              replies == /\ ask
                         /\ stack.configured
                         /\ target = stack.configuration.address
                         /\ local_peer(stack, from)
          IN  /\ stack' = handle_arp(stack, m)
              /\ IF replies
                 THEN Sends([kind |-> "arp", source |-> target, dest |-> from, mac |-> from])
                 ELSE out' = NoPacket
    /\ op' = [op EXCEPT !.frames = @ + 1]
    /\ UNCHANGED <<asked, result>>

\* A ping of our address, by a host or by a machine that holds an address
\* leased here; it may have come through any card of the wire.  The reply goes
\* back to the card it came from, with no look at the subnet or the ARP cache.
HearPing ==
    /\ MoreFrames
    /\ \E from \in Host \cup Leased, card \in Host, to \in Leased :
          /\ Reaches(stack, [from |-> from, to |-> to])
          /\ Sends([kind |-> "reply", source |-> stack.configuration.address,
                    dest |-> from, mac |-> card])
    /\ op' = [op EXCEPT !.frames = @ + 1]
    /\ UNCHANGED <<stack, asked, result>>

----
(* Between operations: time passes, and status commands poll.              *)

Rest ==
    /\ op.at = "idle"
    /\ stack' = Later(stack)
    /\ Quiet
    /\ UNCHANGED op

StatusPoll ==
    /\ op.at = "idle"
    /\ stack' = Polled(stack)
    /\ op' = Waiting(op, "poll")
    /\ Quiet

StatusDone ==
    /\ op.at = "poll"
    /\ op' = Waiting(op, "idle")
    /\ Quiet
    /\ UNCHANGED stack

----
(* net_dhcp.                                                               *)

net_dhcp ==
    /\ op.at = "idle" /\ ~stack.busy
    /\ op.begun < MaxOps
    /\ stack' = [Unconfigured(stack) EXCEPT !.busy = TRUE]
    /\ op' = [Waiting(op, "link") EXCEPT !.kind = "dhcp", !.begun = @ + 1]
    /\ Quiet

LinkDown ==
    /\ op.at = "link"
    /\ op.waited < LinkTime
    /\ stack' = Later(stack)
    /\ op' = [op EXCEPT !.waited = @ + 1]
    /\ Quiet

LinkUp ==
    /\ op.at = "link"
    /\ op' = [op EXCEPT !.at = "discover"]
    /\ Quiet
    /\ UNCHANGED stack

\* The link stays down, or the thread cannot sleep.
NoLink == op.at = "link" /\ Finish(stack, FALSE)

\* One attempt starts with a broadcast DISCOVER under a new number.
Discover ==
    /\ op.at = "discover"
    /\ LET s == [stack EXCEPT !.random = random_value(stack), !.xid = random_value(stack),
                              !.offered_ready = FALSE, !.ack_ready = FALSE,
                              !.dhcp_state = 1]
       IN  stack' = Polled(s)
    /\ asked' = asked \cup {[type |-> "discover", number |-> Number,
                             xid |-> random_value(stack)]}
    /\ op' = [Waiting(op, "offer") EXCEPT !.request = Number]
    /\ out' = NoPacket
    /\ UNCHANGED result

\* The DISCOVER or the REQUEST cannot be sent, or its wait ends: the next
\* attempt, or none.
AttemptFails ==
    IF op.attempt + 1 < DhcpAttempts
    THEN /\ op' = [Waiting(op, "discover") EXCEPT !.attempt = @ + 1]
         /\ Quiet
         /\ UNCHANGED stack
    ELSE Finish(stack, FALSE)

DiscoverLost == op.at = "discover" /\ AttemptFails

Request ==
    /\ op.at = "offer" /\ stack.offered_ready
    /\ stack' = Polled([stack EXCEPT !.dhcp_state = 2])
    /\ asked' = asked \cup {[type |-> "request", number |-> Number, xid |-> stack.xid,
                             server |-> stack.offered.server,
                             address |-> stack.offered.address]}
    /\ op' = [Waiting(op, "ack") EXCEPT !.request = Number]
    /\ out' = NoPacket
    /\ UNCHANGED result

RequestLost == op.at = "offer" /\ stack.offered_ready /\ AttemptFails

Bound ==
    /\ op.at = "ack" /\ stack.ack_ready
    /\ Finish([stack EXCEPT !.configuration = stack.offered,
                            !.left = stack.offered.lease,
                            !.configured = TRUE], TRUE)

DhcpWaits ==
    /\ \/ op.at = "offer" /\ ~stack.offered_ready
       \/ op.at = "ack" /\ ~stack.ack_ready
    /\ op.waited < WaitTime
    /\ SleepAndPoll

DhcpGivesUp ==
    /\ \/ op.at = "offer" /\ ~stack.offered_ready
       \/ op.at = "ack" /\ ~stack.ack_ready
    /\ AttemptFails

----
(* net_ping, net_udp_request and net_resolve start by finding a route.     *)

\* net_resolve draws the query's number before anything is sent.
StartExchange(kind, dest) ==
    /\ op.at = "idle" /\ ~stack.busy
    /\ op.begun < MaxOps
    /\ LET drawn == IF kind = "dns"
                    THEN [stack EXCEPT !.random = random_value(stack),
                                       !.dns_id = random_value(stack) % 2^IdBits]
                    ELSE stack
       IN  stack' = [Polled(drawn) EXCEPT !.busy = TRUE]
    /\ op' = [Waiting(op, "route") EXCEPT !.kind = kind, !.dest = dest,
                                          !.begun = @ + 1]
    /\ Quiet

Hop == NextHop(stack.configuration, op.dest)

Routable ==
    /\ stack.configured
    /\ op.dest # stack.configuration.address
    /\ Assignable(Hop, stack.configuration)

NoRoute == op.at = "route" /\ ~Routable /\ Finish(stack, FALSE)

RouteFound ==
    \/ op.at = "route" /\ Routable /\ arp_lookup(stack, Hop)
    \/ op.at = "arp" /\ arp_lookup(stack, stack.arp_waiting)

Learned == MacFor(stack, IF op.at = "arp" THEN stack.arp_waiting ELSE Hop)

\* The stack once net_ping, or net_udp_request, has drawn up its question.
Prepared ==
    LET s == [stack EXCEPT !.arp_waiting = None] IN
    IF op.kind = "ping"
    THEN [s EXCEPT !.echo_sequence = (@ + 1) % 2^IdBits, !.echo_peer = op.dest,
                   !.echo_ready = FALSE]
    ELSE [s EXCEPT !.random = random_value(s),
                   !.udp_port = 2^PortBits + (random_value(s) % 2^PortBits),
                   !.udp_peer = op.dest, !.udp_ready = FALSE]

Question(s) ==
    IF op.kind = "ping"
    THEN [type |-> "echo", number |-> Number, source |-> s.configuration.address,
          dest |-> op.dest, sequence |-> s.echo_sequence]
    ELSE [type |-> "udp", number |-> Number, source |-> s.configuration.address,
          dest |-> op.dest, port |-> s.udp_port, id |-> s.dns_id]

Ask ==
    /\ RouteFound
    /\ \E s \in {Prepared} :
          /\ stack' = Polled(s)
          /\ asked' = asked \cup {Question(s)}
          /\ out' = [kind |-> "question", source |-> s.configuration.address,
                     dest |-> op.dest, mac |-> Learned]
    /\ op' = [Waiting(op, IF op.kind = "ping" THEN "echo" ELSE "udp")
                 EXCEPT !.request = Number]
    /\ UNCHANGED result

AskLost == RouteFound /\ Finish(Prepared, FALSE)

\* route broadcasts a question for the next hop, and waits for its answer.
AskNeighbour ==
    /\ op.at = "route" /\ Routable /\ ~arp_lookup(stack, Hop)
    /\ stack' = Polled([stack EXCEPT !.arp_waiting = Hop])
    /\ op' = Waiting(op, "arp")
    /\ Quiet

NeighbourUnheard == op.at = "arp" /\ ~arp_lookup(stack, stack.arp_waiting)

NeighbourWaits ==
    /\ NeighbourUnheard
    /\ op.waited < ArpTime
    /\ stack.configured
    /\ SleepAndPoll

\* Time is over, the lease is, or the link: the question is repeated as it was.
NeighbourAgain ==
    /\ NeighbourUnheard
    /\ op.attempt + 1 < ArpAttempts
    /\ stack' = Polled(stack)
    /\ op' = [Waiting(op, "arp") EXCEPT !.attempt = @ + 1]
    /\ Quiet

\* The last attempt is over, the question cannot be sent, or the thread cannot
\* sleep.
NoNeighbour ==
    /\ \/ op.at = "route" /\ Routable /\ ~arp_lookup(stack, Hop)
       \/ NeighbourUnheard
    /\ Finish(stack, FALSE)

----
(* wait_flag for the answer of a ping or of a UDP exchange.                *)

Answered == \/ op.at = "echo" /\ stack.echo_ready
            \/ op.at = "udp" /\ stack.udp_ready

\* A reply may be too long for the caller's buffer, or be no answer to the
\* DNS query.
ReplyGood == \/ op.kind = "ping"
             \/ op.kind = "udp" /\ stack.udp_data.good
             \/ op.kind = "dns" /\ stack.udp_data.good
                                /\ stack.udp_data.id = stack.dns_id

ExchangeEnds == Answered /\ Finish(stack, ReplyGood)

\* Mutant: the time already waited is not looked at.
AnswerWaits_Forever ==
    /\ op.at \in {"echo", "udp"} /\ ~Answered
    /\ stack' = Polled(Later(stack))
    /\ op' = [op EXCEPT !.frames = 0]
    /\ Quiet

AnswerWaits ==
    /\ op.at \in {"echo", "udp"} /\ ~Answered
    /\ op.waited < WaitTime
    /\ SleepAndPoll

\* The time is over, or the link, or the thread cannot sleep.
ExchangeGivesUp ==
    /\ op.at \in {"echo", "udp"} /\ ~Answered
    /\ Finish(stack, FALSE)

-----------------------------------------------------------------------------

\* What the owner does once it is in an operation: it goes on until it returns.
Continue ==
    \/ StatusDone \/ LinkUp \/ LinkDown \/ NoLink
    \/ Discover \/ DiscoverLost \/ Request \/ RequestLost \/ Bound
    \/ DhcpWaits \/ DhcpGivesUp
    \/ NoRoute \/ Ask \/ AskLost \/ AskNeighbour \/ NeighbourWaits
    \/ NeighbourAgain \/ NoNeighbour
    \/ ExchangeEnds \/ AnswerWaits \/ ExchangeGivesUp

Next ==
    \/ Continue
    \/ HearAnswer \/ HearArp \/ HearPing
    \/ Rest \/ StatusPoll \/ net_dhcp
    \/ \E kind \in {"ping", "udp", "dns"}, dest \in Host : StartExchange(kind, dest)

Spec == Init /\ [][Next]_vars

-----------------------------------------------------------------------------

StackTypeOK ==
    /\ stack.random \in 0 .. 2^RandomBits - 1
    /\ stack.dhcp_state \in 0 .. 2
    /\ stack.configuration \in Offers \cup {NoOffer}
    /\ op.frames \in 0 .. PollFrames
    /\ op.attempt < DhcpAttempts \/ op.attempt < ArpAttempts
    /\ stack.busy = (op.at \notin {"idle", "poll"})

\* Every slot in use belongs to a different neighbour of the leased subnet.
CacheExact ==
    \A i \in Slots : LET e == stack.arp_cache[i] IN
        e.ip # None =>
            /\ local_peer(stack, e.ip)
            /\ e.mac = e.ip
            /\ \A j \in Slots \ {i} : stack.arp_cache[j].ip # e.ip

ConfigurationOK ==
    /\ StackTypeOK
    /\ CacheExact
    /\ IF stack.configured
       THEN /\ stack.dhcp_state = 0
            /\ \E r \in asked :
                  /\ r.type = "request"
                  /\ r.server = stack.configuration.server
                  /\ r.address = stack.configuration.address
            /\ local_peer(stack, stack.configuration.gateway)
       ELSE /\ stack.configuration = NoOffer
            /\ stack.arp_cache = EmptyCache

PacketOK ==
    out # NoPacket =>
        /\ stack.configured
        /\ out.source = stack.configuration.address
        /\ possible_peer(stack, out.dest)
        /\ out.kind # "reply" => out.mac = NextHop(stack.configuration, out.dest)

\* Whatever is lost, late or repeated, and whenever the lease runs out: the
\* stack is configured only with an address that a server confirmed to it on
\* request, with a gateway that is a neighbour; it has no configuration while
\* it asks for one, and no neighbours without one.  Every ping, UDP packet, echo
\* reply and ARP reply leaves under a lease that still runs, from the leased
\* address, and none for that address itself or for one of its subnet that no
\* host can have; and but for an echo reply, which goes back the way its request
\* came, it leaves for the card of the next hop on the way to its destination,
\* though the route was found polls ago, before the lease could end (net_dhcp,
\* net_poll, arp_remember, route, handle_ip, handle_arp).
LeaseHonoured == []ConfigurationOK /\ [][PacketOK']_vars

\* An operation that reports success heard the answer to its own last request:
\* never the late answer to an earlier DISCOVER, REQUEST, ping or query, though
\* all of them may still be on the wire (handle_udp, handle_ip, net_resolve).
AnswersAreOurs == result.ok => result.own

\* The stages of net_dhcp, of an exchange and of a status command, in order.
Stage == [at \in {"link", "discover", "offer", "ack", "route", "arp", "echo", "udp", "poll"} |->
             CASE at \in {"link", "route", "poll"} -> 1
               [] at \in {"discover", "arp"} -> 2
               [] at \in {"offer", "echo", "udp"} -> 3
               [] at = "ack" -> 4]

\* What an operation may use up, first things first: attempts, the stages of
\* an attempt, the sleeps of a stage and the frames of a poll.
Nearer(o, n) ==
    \/ n.attempt \in o.attempt + 1 .. DhcpAttempts + ArpAttempts
    \/ n.attempt = o.attempt
       /\ \/ Stage[n.at] > Stage[o.at]
          \/ n.at = o.at
             /\ \/ n.waited \in o.waited + 1 .. LinkTime + WaitTime + ArpTime
                \/ n.waited = o.waited /\ n.frames \in o.frames + 1 .. PollFrames

\* Every operation returns after boundedly many steps, with the network silent,
\* talkative or repeating itself: each step returns, or takes something from a
\* budget that nothing refills - a frame, a sleep, a stage, an attempt - so no
\* retry starts a wait or a poll over for ever (wait_flag, route, net_dhcp, net_poll).
OperationEnds ==
    [][op.at # "idle" => op'.at = "idle" \/ Nearer(op, op')]_vars

=============================================================================
