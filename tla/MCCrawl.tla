------------------------------ MODULE MCCrawl ------------------------------
EXTENDS Crawl, TLC

CONSTANTS f1, f2, todo, plain, huge, none, empty

TwoFiles == {f1, f2}
ThreeVersions == {todo, plain, huge}
TodoIsMarked == {todo}
HugeIsUnlisted == {huge}

Interchangeable == Permutations(Files)

=============================================================================
