------------------------------ MODULE MCStatus ------------------------------
(* Small instances of the status answer for TLC.  The payouts are p1's, as *)
(* h1; p2 earns nothing, and makes listings of which one joined first.     *)
(* m4 was configured once; with one id in the list, p1 can cut it off.     *)
(* Hours have two portions of two seconds.                                 *)
EXTENDS Status

CONSTANTS p1, p2, m1, m2, m4, h1

MCPidOf == h1 :> p1
MCKeyOf == (p1 :> m2) @@ (p2 :> m2)
MCOrder == <<p1, p2, m1, m2, m4>>

Payout(hash, model, at) == [hash |-> hash, model |-> model, at |-> at]

\* Jobs in a portion and in the next one, in the hour before, of tomorrow.
MCLate == {Payout(h1, "glm", 5)}
MCPayouts == {Payout(h1, "gpt-oss", 4), Payout(h1, "gemma", 4), Payout(h1, "gpt-oss", 5),
              Payout(h1, "gemma", 2), Payout(h1, "granite", 0), Payout(NoHash, "gpt-oss", 4),
              Payout(h1, "gpt-oss", 9)} \cup MCLate

\* With all models on display, one is left without an initial, one without a label.
MCNames == <<"gemma", "glm", "gpt-oss", "granite">>
MCInitials == [gemma |-> <<"G">>] @@ [glm |-> <<"G">>] @@ ("gpt-oss" :> <<"G", "O">>)
              @@ [granite |-> <<"G">>]
MCLabels == <<"A", "G", "O">>
=============================================================================
