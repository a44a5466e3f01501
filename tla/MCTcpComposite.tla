-------------------------- MODULE MCTcpComposite --------------------------
(***************************************************************************)
(* Plans for TcpComposite.  Parameters are in quarters.                    *)
(***************************************************************************)
EXTENDS TcpComposite

Cubic == [policy |-> "TcpCubic", par1 |-> 3, par2 |-> 2]
SlowCubic == [policy |-> "TcpCubic", par1 |-> 1, par2 |-> 2]
Reno == [policy |-> "TcpNewReno", par1 |-> 4, par2 |-> 8]

CubicToReno == [first |-> Cubic, second |-> Reno, diff |-> 0]
CubicToCubic == [first |-> Cubic, second |-> SlowCubic, diff |-> 0]
RenoToCubic == [first |-> Reno, second |-> SlowCubic, diff |-> 2]

\* Each policy is followed by the other and Cubic by itself, with the window kept and
\* with it raised.
BothWays == {CubicToReno, CubicToCubic, RenoToCubic}

\* The difference of one third of the experiments (genSwitchJobSub.py).
Shrinking == {[CubicToReno EXCEPT !.diff = -5]}

\* Of the older list there: a Cubic with 0.4 followed by one with 0.8.
Steeper == {[CubicToCubic EXCEPT !.second.par2 = 2 * @]}
=============================================================================
