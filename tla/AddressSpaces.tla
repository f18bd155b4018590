---------------------------- MODULE AddressSpaces ----------------------------
(* What user_vm.h promises of the address spaces of processes, without      *)
(* frames, tables or a TLB: each is a private map from pages to contents    *)
(* and an access.  A call that answers true has done all it was asked, one  *)
(* that answers false nothing.                                              *)
CONSTANTS Space, Virt, Access, Data, Zero, None

VARIABLES
  memory,   \* space -> None, or page -> [data, access]
  call      \* the last call and its answer: [op, space, pages, arg, ok]

spaces_vars == <<memory, call>>

AbsentSpace == [p \in {} |-> Zero]

SpacesInit ==
  /\ memory = [v \in Space |-> None]
  /\ call = None

Mapped(v) == IF memory[v] = None THEN {} ELSE DOMAIN memory[v]
Writable(v) == {p \in Mapped(v) : memory[v][p].access = "rw"}

(* The call has its effect on its own space, or none at all.                *)
Outcome(c, effect) ==
  memory' = IF c.ok THEN [memory EXCEPT ![c.space] = effect] ELSE memory

(* May be refused for want of frames, as PageMap may.                       *)
SpaceCreate(c) ==
  /\ c.op = "create"
  /\ c.ok => memory[c.space] = None
  /\ Outcome(c, AbsentSpace)

(* A new page reads as zero.                                                *)
PageMap(c) ==
  /\ c.op = "alloc"
  /\ c.ok => memory[c.space] # None /\ c.pages \subseteq Virt \ Mapped(c.space) /\ c.arg \in Access
  /\ Outcome(c, [q \in Mapped(c.space) \cup c.pages |->
       IF q \in c.pages THEN [data |-> Zero, access |-> c.arg] ELSE memory[c.space][q]])

PageUnmap(c) ==
  /\ c.op = "unmap"
  /\ c.ok <=> c.pages \subseteq Mapped(c.space)
  /\ Outcome(c, [q \in Mapped(c.space) \ c.pages |-> memory[c.space][q]])

PageProtect(c) ==
  /\ c.op = "protect"
  /\ c.ok <=> c.pages \subseteq Mapped(c.space) /\ c.arg \in Access
  /\ Outcome(c, [q \in Mapped(c.space) |->
       IF q \in c.pages THEN [memory[c.space][q] EXCEPT !.access = c.arg] ELSE memory[c.space][q]])

(* A copy in or out is refused exactly when one of its pages does not allow *)
(* it, and then touches none of them.                                       *)
PagesStore(c) ==
  /\ c.op = "store" /\ c.arg \in Data
  /\ c.ok <=> memory[c.space] # None /\ c.pages \subseteq Writable(c.space)
  /\ Outcome(c, [q \in Mapped(c.space) |->
       IF q \in c.pages THEN [memory[c.space][q] EXCEPT !.data = c.arg] ELSE memory[c.space][q]])

PagesLoad(c) ==
  /\ c.op = "load"
  /\ c.ok <=> memory[c.space] # None /\ c.pages \subseteq Mapped(c.space)
  /\ c.arg = IF c.ok THEN [p \in c.pages |-> memory[c.space][p].data] ELSE None
  /\ UNCHANGED memory

(* Refused while the processor uses the space.                              *)
SpaceDestroy(c) ==
  /\ c.op = "destroy"
  /\ c.ok => memory[c.space] # None
  /\ Outcome(c, None)

SpacesNext ==
  LET c == call' IN
  /\ c.space \in Space /\ c.ok \in BOOLEAN
  /\ \/ SpaceCreate(c) \/ PageMap(c) \/ PageUnmap(c) \/ PageProtect(c)
     \/ PagesStore(c) \/ PagesLoad(c) \/ SpaceDestroy(c)

SpacesSpec == SpacesInit /\ [][SpacesNext]_spaces_vars
=============================================================================
