------------------------------ MODULE LogCache ------------------------------
(***************************************************************************)
(* The log levels of idf_components/log/log.c: the list of the tags whose  *)
(* level was set, and a cache of looked-up levels, a binary min-heap on    *)
(* `generation' that is only kept in order once it is full.  The list is   *)
(* searched by the text of a tag, the cache by its address.  Every         *)
(* operation holds the mutex of log_linux.c throughout, so each is a step. *)
(***************************************************************************)
EXTENDS Naturals, Sequences, FiniteSets

CONSTANTS
  Tag,              (* addresses of tags                                    *)
  Text,             (* Text[t]: the string at address t                     *)
  Settable,         (* the texts the program calls esp_log_level_set with   *)
  Level,            (* the values of esp_log_level_t in use                 *)
  DefaultLevel,     (* CONFIG_LOG_DEFAULT_LEVEL                             *)
  CacheSize,        (* TAG_CACHE_SIZE: one less than a power of two, >= 3   *)
  GenerationMax,    (* bound: the generation counter stops here; the 29-bit *)
                    (* field that holds it does not wrap below 2^29         *)
  NotSet            (* a text that is not in the list                       *)

ASSUME CacheSizeAssumption == CacheSize \in Nat /\ CacheSize >= 3 /\ CacheSize % 2 = 1
ASSUME LevelAssumption == DefaultLevel \in Level /\ NotSet \notin Level

VARIABLES
  s_log_tags,       (* level of each text in the list, or NotSet            *)
  default_level,    (* esp_log_default_level                                *)
  s_log_cache,      (* the entries in use, s_log_cache[i+1] for index i     *)
  max_generation    (* s_log_cache_max_generation                           *)

vars == <<s_log_tags, default_level, s_log_cache, max_generation>>

Entry == [tag : Tag, level : Level, generation : Nat]

Init ==
  /\ s_log_tags = [x \in Settable |-> NotSet]
  /\ default_level = DefaultLevel
  /\ s_log_cache = <<>>
  /\ max_generation = 0

Full == Len(s_log_cache) = CacheSize

\* The smaller child of entry i of a full cache.
Next2(c, i) == IF c[2*i].generation < c[2*i + 1].generation THEN 2*i ELSE 2*i + 1

\* S holds the smaller child of each of its entries that has children.
Closed(c, S) == \A k \in S : k <= CacheSize \div 2 => Next2(c, k) \in S

\* The entries that heap_bubble_down swaps its way through from entry i on: no
\* more than it takes to go on from each of them to its smaller child.
Path(c, i) ==
  {k \in i..CacheSize :
     \A S \in SUBSET (i..CacheSize) : i \in S /\ Closed(c, S) => k \in S}

\* (mutant: only one swap)
BubbleOnce(c, i) ==
  IF i <= CacheSize \div 2
    THEN [c EXCEPT ![i] = c[Next2(c, i)], ![Next2(c, i)] = c[i]]
    ELSE c

\* heap_bubble_down: entry i changes places with its smaller child until it is
\* a leaf, so each entry on the way moves up by one and i to the end.
BubbleDown(c, i) ==
  LET path == Path(c, i)
  IN  [k \in DOMAIN c |->
         IF k \notin path THEN c[k]
         ELSE IF k <= CacheSize \div 2 THEN c[Next2(c, k)] ELSE c[i]]

\* get_uncached_log_level, or the default.
Uncached(t) ==
  IF Text[t] \notin Settable \/ s_log_tags[Text[t]] = NotSet
    THEN default_level ELSE s_log_tags[Text[t]]

Cached(t) == {i \in DOMAIN s_log_cache : s_log_cache[i].tag = t}

\* get_cached_log_level finds the tag.
Hit(t) ==
  \E i \in Cached(t) :
    /\ s_log_cache' = IF Full
                        THEN BubbleDown([s_log_cache EXCEPT ![i].generation = max_generation], i)
                        ELSE s_log_cache
    /\ max_generation' = IF Full THEN max_generation + 1 ELSE max_generation

\* (mutant: the new entry goes where the last one was)
AddToCacheLast(t) ==
  LET e == [tag |-> t, level |-> Uncached(t), generation |-> max_generation]
  IN  s_log_cache' = IF Full THEN [s_log_cache EXCEPT ![CacheSize] = e]
                             ELSE Append(s_log_cache, e)

\* add_to_cache: at the end, or in place of the first (oldest) entry.
AddToCache(t) ==
  LET e == [tag |-> t, level |-> Uncached(t), generation |-> max_generation]
  IN  s_log_cache' = IF Full THEN BubbleDown([s_log_cache EXCEPT ![1] = e], 1)
                             ELSE Append(s_log_cache, e)

\* s_log_level_get_and_unlock, for esp_log_level_get and esp_log_writev.
LevelGet(t) ==
  /\ max_generation < GenerationMax
  /\ \/ Hit(t)
     \/ /\ Cached(t) = {}
        /\ AddToCache(t)
        /\ max_generation' = max_generation + 1
  /\ UNCHANGED <<s_log_tags, default_level>>

\* esp_log_level_set("*", l): clear_log_level_list.
LevelSetAll(l) ==
  /\ default_level' = l
  /\ s_log_tags' = [x \in Settable |-> NotSet]
  /\ s_log_cache' = <<>>
  /\ max_generation' = 0

\* (mutant: the cache is not updated)
FirstWithTextNone(x) == {}

\* The entry that esp_log_level_set updates: the first one with this text.
FirstWithText(x) ==
  {i \in DOMAIN s_log_cache :
     /\ Text[s_log_cache[i].tag] = x
     /\ \A j \in 1..(i - 1) : Text[s_log_cache[j].tag] # x}

\* esp_log_level_set for a tag.  (When the list has no room for a new entry,
\* because malloc fails, it returns without a change: a stuttering step.)
LevelSet(x, l) ==
  /\ s_log_tags' = [s_log_tags EXCEPT ![x] = l]
  /\ s_log_cache' = [i \in DOMAIN s_log_cache |->
       IF i \in FirstWithText(x) THEN [s_log_cache[i] EXCEPT !.level = l] ELSE s_log_cache[i]]
  /\ UNCHANGED <<default_level, max_generation>>

Next ==
  \/ \E t \in Tag : LevelGet(t)
  \/ \E l \in Level : LevelSetAll(l)
  \/ \E x \in Settable, l \in Level : LevelSet(x, l)

Spec == Init /\ [][Next]_vars
-----------------------------------------------------------------------------
TypeOK ==
  /\ s_log_tags \in [Settable -> Level \cup {NotSet}]
  /\ default_level \in Level
  /\ s_log_cache \in Seq(Entry) /\ Len(s_log_cache) <= CacheSize
  /\ max_generation \in Nat

\* The parent of an entry is older: what the assertions of get_cached_log_level
\* (line 218) and esp_log_level_set (line 132) say, which would end the program,
\* and every generation has been handed out.
HeapOrder ==
  /\ \A i \in DOMAIN s_log_cache : s_log_cache[i].generation < max_generation
  /\ \A i \in DOMAIN s_log_cache \ {1} :
       s_log_cache[i \div 2].generation < s_log_cache[i].generation

\* A tag is cached once, and if no other address holds its text the cached level
\* is what a search of the list would give: the cache never hides a level_set,
\* whatever was evicted, looked up again or cleared in between.
CachedIsCurrent ==
  \A i \in DOMAIN s_log_cache :
    LET t == s_log_cache[i].tag
    IN  /\ Cached(t) = {i}
        /\ (\A u \in Tag \ {t} : Text[u] # Text[t]) => s_log_cache[i].level = Uncached(t)

\* The cached tags by age.
Recency ==
  [k \in DOMAIN s_log_cache |->
     s_log_cache[CHOOSE i \in DOMAIN s_log_cache :
       Cardinality({j \in DOMAIN s_log_cache :
         s_log_cache[j].generation < s_log_cache[i].generation}) = k - 1].tag]

Lru == INSTANCE LruCache WITH recency <- Recency, Size <- CacheSize

\* The heap implements the promise: the tag that leaves the full cache is the one
\* looked up longest ago.
LruSpec == Lru!Spec
=============================================================================
