-------------------------- MODULE MCBaseMaterializer --------------------------
(* Two streams: blocks with a log of each, with two logs of one, and with  *)
(* none.  Log index 0 is the boundary of the initial cursor.               *)
EXTENDS BaseMaterializer, TLC

CONSTANTS m1, m2

MCMaterializers == {m1, m2}
MCBlockLogs ==
    { (m1 :> {0} @@ m2 :> {1}),
      (m1 :> {0, 1} @@ m2 :> {}),
      (m1 :> {} @@ m2 :> {}) }
=============================================================================
