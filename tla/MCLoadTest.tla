----------------------------- MODULE MCLoadTest -----------------------------
(* Instances of LoadTest and RampTest for TLC: responses and stages. *)
EXTENDS RampTest, TLC

Whole == <<"token", "done">>
CutOff == <<"token">>
Garbled == <<"token", "garbled", "done">>

AnyResponse == {Whole, CutOff, Garbled, Refused, Hung}
GoodResponse == {Whole}

OneThenTwo == <<1, 2>>
OneStage == <<1>>

=============================================================================
