---------------------------- MODULE PrefixCache ----------------------------
(***************************************************************************)
(* The prefix cache (RadixPrefixCache in gateway/request_buffer.py): an    *)
(* OrderedDict of hashes of system prefixes, least recently used first.  A *)
(* hash stands for the sequence of texts it is computed from.              *)
(***************************************************************************)
EXTENDS Integers, Sequences, FiniteSets, SequencesExt

CONSTANTS
    Texts,         \* contents of messages that are strings
    NoText,        \* content that is not one (image parts)
    MaxMessages,   \* bound on the length of a conversation
    max_entries

CacheAssumption == max_entries \in Nat \ {0} /\ MaxMessages \in Nat /\ NoText \notin Texts

Messages == [role : {"system", "other"}, content : Texts \cup {NoText}]

VARIABLES
    cache,      \* keys of _cache in order
    hit,        \* keys with hit_count > 0
    recency     \* history: every prefix ever used, the latest last

vars == <<cache, hit, recency>>

Init == cache = <<>> /\ hit = {} /\ recency = <<>>

\* The texts of the system messages the conversation begins with.
SystemPrefix(messages) ==
    LET leading == {i \in 1..Len(messages) : \A j \in 1..i : messages[j].role = "system"}
        system == SelectSeq(SubSeq(messages, 1, Cardinality(leading)),
                            LAMBDA m : m.content # NoText)
    IN [i \in 1..Len(system) |-> system[i].content]

\* Deviation: a hit does not make the entry the youngest.
TouchInPlace(h) == cache

\* move_to_end
Touch(h) == Append(RemoveFirst(cache, h), h)

\* A new entry, after the oldest one has made place for it.
Insert(h) == Append(IF Len(cache) >= max_entries THEN Tail(cache) ELSE cache, h)

GetPrefixHash(messages) ==
    LET h == SystemPrefix(messages) IN
    /\ h # <<>>
    /\ recency' = Append(RemoveFirst(recency, h), h)
    /\ cache' = IF Contains(cache, h) THEN Touch(h) ELSE Insert(h)
    /\ hit' = (hit \cap ToSet(cache')) \cup (IF Contains(cache, h) THEN {h} ELSE {})

\* total_prefixes of get_stats.
TotalPrefixes == Len(cache)

Next == \E n \in 1..MaxMessages : \E messages \in [1..n -> Messages] : GetPrefixHash(messages)

Spec == Init /\ [][Next]_vars

-----------------------------------------------------------------------------
(* Properties *)

TypeOK ==
    /\ cache \in Seq(Seq(Texts)) /\ TotalPrefixes <= max_entries
    /\ hit \in SUBSET ToSet(cache)
    /\ recency \in Seq(Seq(Texts))

\* The cache is the last max_entries distinct prefixes that were used, in order
\* of their last use, whatever was evicted and came back in between.
CacheIsLRU ==
    LET n == Len(recency) IN
    cache = SubSeq(recency, IF n > max_entries THEN n - max_entries + 1 ELSE 1, n)
=============================================================================
