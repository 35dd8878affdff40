------------------------------ MODULE TokenBucket ------------------------------
(***************************************************************************)
(* A token bucket kept up to date at every instant: what the lazy bucket of *)
(* sch_tsf.c (tokens, t_c, buffer) stands for.  The level grows by the time *)
(* that passes, no more and no less, up to the depth; a packet enters the   *)
(* ring only by paying its whole transmission time; and but for a new rate  *)
(* nothing else moves the level.                                            *)
(***************************************************************************)
EXTENDS Integers

CONSTANTS HZ, Rates, Skb, PktLen, L2T,
          MaxWait               \* the longest time one step may take

VARIABLES rate,
          level,                \* tokens, in units of time
          load,                 \* bytes the ring is charged with
          passed                \* the time the last step took

vars == <<rate, level, load, passed>>

Depth == rate \div HZ
Lower(a, b) == IF a < b THEN a ELSE b

Init == rate \in Rates /\ level = Depth /\ load = 0 /\ passed = 0

\* A packet pays and enters, or pays and is refused by the ring.
Admit(s) == /\ level >= L2T[rate][s]
            /\ level' = level - L2T[rate][s]
            /\ load' \in {load, load + PktLen[s]}
            /\ rate' = rate /\ passed' = 0

Wait(d) == /\ level' = Lower(level + d, Depth)
           /\ passed' = d
           /\ UNCHANGED <<rate, load>>

Release == /\ load' < load
           /\ passed' = 0
           /\ UNCHANGED <<rate, level>>

\* Another rate: a smaller bucket keeps what fits.  A larger one may find tokens
\* of the time since t_c that the smaller one had no room for.
Resize == /\ rate' \in Rates \ {rate}
          /\ level' \in Lower(level, Depth')..Depth'
          /\ Depth' <= Depth => level' = Lower(level, Depth')
          /\ passed' = 0
          /\ UNCHANGED load

Next == \/ \E s \in Skb : Admit(s)
        \/ \E d \in 0..MaxWait : Wait(d)
        \/ Release
        \/ Resize

Spec == Init /\ [][Next]_vars
================================================================================
