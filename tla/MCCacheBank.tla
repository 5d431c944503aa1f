---------------------------- MODULE MCCacheBank ----------------------------
(* Small caches for TLC: three lines that compete for the ways of one set. *)
EXTENDS CacheBank

MCLines == {"a", "b", "c"}
MCSets == {0}
MCSetOf == [l \in MCLines |-> 0]

(* A write-through cache of two ways, with IO and a second run; and a      *)
(* direct-mapped write-back cache, with a request more.                    *)
WriteThroughBank ==
    [inputs |-> 2, ways |-> 2, writeBack |-> FALSE, traffic |-> Traffic,
     reqs |-> 3, queue |-> 2, runs |-> 2]
WriteBackBank ==
    [inputs |-> 1, ways |-> 1, writeBack |-> TRUE, traffic |-> {"read", "write"},
     reqs |-> 4, queue |-> 2, runs |-> 1]

BothBanks == {WriteThroughBank, WriteBackBank}
OnlyWriteBack == {WriteBackBank}
=============================================================================
