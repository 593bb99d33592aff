---------------------------- MODULE MCAtomicFile ----------------------------
\* Kinds of files for checking AtomicFile.
EXTENDS AtomicFile

AllKinds == {"json", "jsonl", "yaml", "ignore"}
=============================================================================
