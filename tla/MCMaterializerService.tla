------------------------- MODULE MCMaterializerService -------------------------
(* Streams and blocks for the runs of MaterializerService.  Every block    *)
(* has a watched log, and so a row in block_hash_log.                      *)
EXTENDS MaterializerService, TLC

CONSTANTS m1, m2

NoStream == {}
OneStream == {m1}
TwoStreams == {m1, m2}

DenseOne == {m1 :> {1}}
SmallTwo == {(m1 :> {0} @@ m2 :> {}), (m1 :> {} @@ m2 :> {1})}
=============================================================================
