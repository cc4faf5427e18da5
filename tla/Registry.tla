------------------------------ MODULE Registry ------------------------------
(***************************************************************************)
(* What the server promises its clients about membership, without threads, *)
(* messages or a dictionary walk.  An address belongs to one connection at *)
(* a time.  A connection enters only if it has found its address free, is  *)
(* told that it is in only while it owns it, is removed only while it owns *)
(* it, and is never entered a second time while it believes it is in.      *)
(*                                                                         *)
(* The promise has one gap: two connections that present the same address  *)
(* may both find it free.  The second to enter replaces the first, and the *)
(* address counts as contested: there a connection may be told it is in    *)
(* after it was replaced, and may remove the one that replaced it.         *)
(***************************************************************************)
CONSTANTS Conns, IPs, NoConn, OwnIP

VARIABLES
  owner,     \* owner[ip] is the connection registered under ip, or NoConn
  claims,    \* the connections that found their address free and will enter
  contested, \* the addresses at which an entry has been replaced
  told       \* told[c] is the last word c was sent on its own membership

vars == <<owner, claims, contested, told>>

Init ==
  /\ owner = [ip \in IPs |-> NoConn]
  /\ claims = {}
  /\ contested = {}
  /\ told = [c \in Conns |-> "nothing"]

Owns(c) == owner[OwnIP[c]] = c
Contested(c) == OwnIP[c] \in contested

\* Find the address free.  A connection that believes it is in never does, since it
\* is the one its address belongs to.
Claim(c) ==
  /\ owner[OwnIP[c]] = NoConn
  /\ told[c] # "in" \/ Contested(c)
  /\ claims' = claims \cup {c}
  /\ UNCHANGED <<owner, contested, told>>

\* Enter under the claimed address, over another's entry if there is one by now.
Enter(c) ==
  /\ c \in claims
  /\ claims' = claims \ {c}
  /\ contested' = IF owner[OwnIP[c]] = NoConn THEN contested
                  ELSE contested \cup {OwnIP[c]}
  /\ owner' = [owner EXCEPT ![OwnIP[c]] = c]
  /\ UNCHANGED told

\* Tell it so, while it is still true.
Welcome(c) ==
  /\ Owns(c) \/ Contested(c)
  /\ told' = [told EXCEPT ![c] = "in"]
  /\ UNCHANGED <<owner, claims, contested>>

\* It leaves, or its connection ends.
Remove(c) ==
  /\ Owns(c) \/ Contested(c)
  /\ owner' = [owner EXCEPT ![OwnIP[c]] = NoConn]
  /\ UNCHANGED <<claims, contested, told>>

\* Tell it that it is out: it has left, or was not found when it sent a frame.
Dismiss(c) ==
  /\ told' = [told EXCEPT ![c] = "out"]
  /\ UNCHANGED <<owner, claims, contested>>

Next == \E c \in Conns : Claim(c) \/ Enter(c) \/ Welcome(c) \/ Remove(c) \/ Dismiss(c)

Spec == Init /\ [][Next]_vars
=============================================================================
