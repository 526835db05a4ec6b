------------------------- MODULE MCControlCallback -------------------------
(* Two commands to a "breaker", whose model is an enhanced one, with a wait *)
(* and a time limit; one each to a "switch", the same under normal          *)
(* security, and to a "lamp", under normal security with neither.           *)
EXTENDS ControlCallback, TLC

MCObjectOf == "o1" :> "breaker" @@ "o2" :> "breaker"
                  @@ "o3" :> "switch" @@ "o4" :> "lamp"
=============================================================================
