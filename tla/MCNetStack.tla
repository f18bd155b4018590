----------------------------- MODULE MCNetStack -----------------------------
(***************************************************************************)
(* Two DHCP servers on one wire.  Server 2 leases 1 in a subnet of sixteen *)
(* addresses, where hosts 2 and 10 are both neighbours; server 10 leases 9 *)
(* in one of eight, with host 2 beyond the gateway.  One more offer of     *)
(* server 2 names a gateway outside its subnet.                            *)
(***************************************************************************)
EXTENDS NetStack

MCHost == {2, 10}

MCOffers ==
    {[server |-> 2, address |-> 1, gateway |-> 2, dns |-> 2, size |-> 16, lease |-> 2],
     [server |-> 10, address |-> 9, gateway |-> 10, dns |-> 10, size |-> 8, lease |-> 2],
     [server |-> 2, address |-> 1, gateway |-> 10, dns |-> 2, size |-> 8, lease |-> 3]}

MCSlots == 0 .. 1

(* States that differ only in what the last step sent are the same: no step *)
(* reads it, and LeaseHonoured looks at it only where a step writes it,     *)
(* which TLC checks at every step it generates.                             *)
WithoutPacket == <<stack, op, asked, result>>

=============================================================================
