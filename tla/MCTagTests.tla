----------------------------- MODULE MCTagTests -----------------------------
EXTENDS TagTests
MCKinds  == {"load", "store", "fetch", "ltag", "stag", "sttcb", "lct", "sct", "ltt"}
MCPtrs   == {A, ARest, B, X, D}
MCValues == 0..15
MCCauses == {"misaligned_fetch", "fetch_access", "illegal", "load_access", "store_access", "tag_mismatch"}
=============================================================================
