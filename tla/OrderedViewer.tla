--------------------------- MODULE OrderedViewer ---------------------------
(***************************************************************************)
(* What a terminal connection promises whatever carries it: output is shown *)
(* in runs, none of which skips anything, though one may begin with what    *)
(* was shown before; and an input that was typed reaches the session at     *)
(* most once.  ClientRoute (relay and direct) and PeerRoute (tunnel and     *)
(* direct) implement it.                                                    *)
(***************************************************************************)
EXTENDS Naturals, Sequences

VARIABLES
    produced,   \* chunks of output of the session
    shown,      \* the runs of chunks, from..to, the terminal has been given
    typed,      \* inputs typed, numbered from 1
    taken       \* the inputs the session has taken, in its order

vars == <<produced, shown, typed, taken>>

\* The newest chunk in the runs s.
Newest(s) == IF s = << >> THEN 0 ELSE s[Len(s)].to

\* A run that goes on from chunk n: it skips nothing and ends with something new.
Continues(n, run) == run.from \in 1..(n + 1) /\ run.to > n

Init == produced = 0 /\ shown = << >> /\ typed = 0 /\ taken = << >>

Produce == produced' = produced + 1 /\ UNCHANGED <<shown, typed, taken>>
Show    == /\ \E run \in [from : 1..produced, to : 1..produced] :
                Continues(Newest(shown), run) /\ shown' = Append(shown, run)
           /\ UNCHANGED <<produced, typed, taken>>
Type    == typed' = typed + 1 /\ UNCHANGED <<produced, shown, taken>>
Take    == /\ \E n \in (1..typed) \ {taken[k] : k \in DOMAIN taken} : taken' = Append(taken, n)
           /\ UNCHANGED <<produced, shown, typed>>

Next == Produce \/ Show \/ Type \/ Take

Spec == Init /\ [][Next]_vars
=============================================================================
