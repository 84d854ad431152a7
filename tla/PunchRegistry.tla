---------------------------- MODULE PunchRegistry ----------------------------
(***************************************************************************)
(* What the lobby server's UDP thread promises to clients that punch       *)
(* through a NAT: who is waiting can be reached, and an address stays      *)
(* listed for FULL_PING_TIMER rounds after it was last heard.  Per address *)
(* there is one number, the rounds it has left; whatever the server keeps  *)
(* in punch_data, duplicates included, is none of the clients' business.   *)
(***************************************************************************)
EXTENDS Naturals

CONSTANTS Addr, FULL_PING_TIMER

VARIABLES
  left,      \* rounds an address stays listed unless it is heard again
  relayed    \* {<<to, about>>}: the peer packet the last round sent, if any

registryVars == <<left, relayed>>

RegistryInit == left = [a \in Addr |-> 0] /\ relayed = {}

\* One round in which the addresses in S have their time renewed.
Pass(S) ==
  left' = [a \in Addr |-> IF a \in S THEN FULL_PING_TIMER - 1
                          ELSE IF left[a] = 0 THEN 0 ELSE left[a] - 1]

Listen == Pass({}) /\ relayed' = {}

\* Address a starts to wait, or waits again.
Register(a) == Pass({a}) /\ relayed' = {}

\* A keep-alive renews a listed address and does not list another one.
KeepAlive(a) == Pass({b \in {a} : left[b] > 0}) /\ relayed' = {}

\* Address a asks for b: b hears of it exactly if it is listed.
Introduce(a, b) == Pass({}) /\ relayed' = {<<t, a>> : t \in {x \in {b} : left[x] > 0}}

Round == \/ Listen
         \/ \E a \in Addr : Register(a) \/ KeepAlive(a)
         \/ \E a, b \in Addr : Introduce(a, b)

RegistrySpec == RegistryInit /\ [][Round]_registryVars

=============================================================================
