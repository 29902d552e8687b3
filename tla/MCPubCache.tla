----------------------------- MODULE MCPubCache -----------------------------
\* Small instances of PubCache for TLC.
EXTENDS PubCache

\* One ad of each format and an iframe, which end on the first two days.
MCAds == {[dim |-> 1, kind |-> "image", end |-> 1],
          [dim |-> 2, kind |-> "image", end |-> 2],
          [dim |-> 2, kind |-> "infomaniak", end |-> 0]}
=============================================================================
