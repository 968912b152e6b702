------------------------------ MODULE MCDatasets ------------------------------
(* Instance of Datasets for TLC: one worker writes to the root dataset in  *)
(* every way, another ingests and transforms.                              *)
EXTENDS Datasets
CONSTANTS w1, w2
MCRequests ==
  {<<w1, o, Root>> : o \in {"ingest", "watermark", "commit", "compact", "reset", "summary"}}
    \cup {<<w2, "ingest", Root>>, <<w2, "reset", Derived>>, <<w2, "transform", Derived>>}
=============================================================================
