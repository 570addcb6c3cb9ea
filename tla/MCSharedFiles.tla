--------------------------- MODULE MCSharedFiles ---------------------------
(* A new file, the databases of versions 1 and 6, and one of the future.   *)
EXTENDS SharedFiles

Version1 == {"metric_samples"}
Version6 == CurrentLayout \cup LegacyLayout

Databases0to8 ==
    {[version |-> 0, layout |-> {}, rows |-> {}],
     [version |-> 1, layout |-> Version1, rows |-> {"dated"}],
     [version |-> 1, layout |-> Version1, rows |-> {"dated", "undated"}],
     [version |-> 6, layout |-> Version6, rows |-> {"dated", "gpu"}],
     [version |-> 8, layout |-> CurrentLayout, rows |-> {"dated"}]}
=============================================================================
