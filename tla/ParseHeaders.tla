----------------------------- MODULE ParseHeaders -----------------------------
(***************************************************************************)
(* `wasmify parse-headers` (cmdParseHeaders and runBatchesWithCache in      *)
(* cmd/wasmify/main.go) with its two caches (internal/apispec/parsecache):  *)
(* groups.json, the batches of headers that compile together, keyed by the  *)
(* list of headers, and one batch-<digest>.json per parsed batch, keyed by  *)
(* the texts of its headers.                                                *)
(*                                                                          *)
(* What clang makes of a header is a record of everything it depends on:    *)
(* the texts of the header and of what it includes, the compile flags, and  *)
(* the inputs that no key covers (bridge.ExternalTypes, clang itself).      *)
(***************************************************************************)
EXTENDS Integers, Sequences, FiniteSets, Functions, SequencesExt

CONSTANTS
  Header,       \* header files of the project
  Lists,        \* sequences of headers that the .d files may list
  Includes,     \* Includes[h]: the headers that h includes
  Text,         \* texts a header can have
  Broken,       \* texts that do not compile
  Clashing,     \* texts of which an umbrella can list one only
  Flags,        \* compile flags, and versions of wasmify
  Extra,        \* inputs of the parser that no key covers
  None,         \* a file that does not exist, or no digest
  Corrupt,      \* a file that does not parse
  EditsDuring,  \* headers are edited while the command runs
  MaxUnkeyed,   \* bound on the kinds of changes that no cache key covers
  MaxFiles,     \* bound on the batch files that a command finds
  MayCrash,     \* the command is killed
  SaveFails     \* apispec.Save fails

ASSUME ConstantsAssumption ==
  /\ Lists \subseteq Seq(Header)
  /\ \A l \in Lists : l # << >> /\ IsInjective(l)
  /\ Includes \in [Header -> SUBSET Header]
  /\ Broken \subseteq Text /\ Clashing \subseteq Text
  /\ {MaxUnkeyed, MaxFiles} \subseteq Nat
  /\ {EditsDuring, MayCrash, SaveFails} \subseteq BOOLEAN
  /\ {None, Corrupt} \cap
       [key : [headers : SUBSET Header, flags : Flags], batches : Seq(Seq(Header))] = {}
  /\ \A H \in SUBSET Header :
       Corrupt \notin [H -> [texts : UNION {[R -> Text] : R \in SUBSET Header},
                           flags : Flags, extra : Extra]]

VARIABLES
  text,     \* text[h]: the header on disk
  found,    \* the headers the build's .d files list
  flags, extra,
  groups,   \* groups.json
  batch,    \* batch[d]: batch-<d>.json
  spec,     \* api-spec.json, if written since the last change; the command
            \* does not read it
  pc,       \* where the command is; "idle" when none runs
  force,    \* --force
  hit,      \* groupCacheHit
  retried,  \* batches have been recomputed after a failure
  batches, at, digest, digests, merged,
  result,   \* how the last command ended, if nothing has changed since
  unkeyed   \* the kinds of changes so far that a cache key does not cover

disk == <<groups, batch>>
inputs == <<text, found, flags, extra>>
run == <<force, hit, retried, batches, at, digest, digests, merged>>
vars == <<inputs, disk, spec, pc, run, result, unkeyed>>

\* The headers clang reads for h.
Reads(h) == {h} \cup Includes[h]

\* checkUmbrellaCompiles.
Compiles(hs) ==
  LET read == UNION {Reads(h) : h \in Range(hs)}
  IN  /\ \A h \in read : text[h] \notin Broken
      /\ Cardinality({h \in Range(hs) : text[h] \in Clashing}) <= 1

\* mergeCompatibleGroups: one batch, or halves of halves that compile; a
\* header that does not compile alone is left out.
Split(hs) ==
  LET part(lo, n) == SubSeq(hs, lo, lo + n - 1)
      split[n \in 0..Len(hs)] ==
        [lo \in 1..Len(hs) + 1 - n |->
           IF n = 0 THEN << >>
           ELSE IF Compiles(part(lo, n)) THEN <<part(lo, n)>>
           ELSE IF n = 1 THEN << >>
           ELSE split[n \div 2][lo] \o split[n - (n \div 2)][lo + (n \div 2)]]
  IN  split[Len(hs)][1]

\* ComputeGroupKey.
GroupKey == [headers |-> Range(found), flags |-> flags]

\* Mutant: the compile flags are left out of the digest.
DigestWithoutFlags(b) ==
  [texts |-> [h \in Range(b) |-> text[h]], flags |-> CHOOSE f \in Flags : TRUE]

\* ComputeBatchDigest.
Digest(b) == [texts |-> [h \in Range(b) |-> text[h]], flags |-> flags]

\* What clang finds in the headers of a batch.
Parsed(b) ==
  [h \in Range(b) |-> [texts |-> [g \in Reads(h) |-> text[g]],
                       flags |-> flags, extra |-> extra]]

\* The specification a run without caches would write.
Cold == LET bs == Split(found)
        IN  [h \in UNION {Range(b) : b \in Range(bs)} |-> Parsed(<<h>>)[h]]

Nothing == << >>   \* the empty function: no file, no declaration
-----------------------------------------------------------------------------
Init ==
  /\ text \in [Header -> Text]
  /\ found \in Lists /\ flags \in Flags /\ extra \in Extra
  /\ groups = None /\ batch = Nothing /\ spec = None
  /\ pc = "idle"
  /\ force = FALSE /\ hit = FALSE /\ retried = FALSE
  /\ batches = << >> /\ at = 1
  /\ digest = None /\ digests = {}
  /\ merged = Nothing
  /\ result = "none"
  /\ unkeyed = {}

\* What the last command has done is no longer of interest.
Forget == result' = "none" /\ spec' = None

\* Changes of these kinds happen.
Unkeyed(kinds) ==
  /\ unkeyed' = unkeyed \cup kinds
  /\ Cardinality(unkeyed') <= MaxUnkeyed

\* The user edits a header.  groups.json is keyed by the list of headers only:
\* one that starts or stops to compile is not in the key, nor is in a batch's
\* key what its headers include from other batches.  An edit while the command
\* runs is the last one: a bound.
Edit(h, t) ==
  /\ pc = "idle" \/ EditsDuring
  /\ "during" \notin unkeyed
  /\ t # text[h]
  /\ text' = [text EXCEPT ![h] = t]
  /\ Unkeyed(IF pc # "idle" THEN {"during"} ELSE
       {k \in {"broken", "include"} :
          \/ k = "broken"
             /\ \E g \in Header : Compiles(<<g>>)' # Compiles(<<g>>)
          \/ k = "include" /\ \E g \in Header : h \in Includes[g]})
  /\ Forget
  /\ UNCHANGED <<found, flags, extra, disk, pc, run>>

\* Another build.json, another wasmify.
Rebuild(l, f) ==
  /\ pc = "idle"
  /\ <<l, f>> # <<found, flags>>
  /\ found' = l /\ flags' = f
  /\ Forget
  /\ UNCHANGED <<text, extra, disk, pc, run, unkeyed>>

\* Another bridge section, another clang.
Reconfigure(x) ==
  /\ pc = "idle"
  /\ x # extra
  /\ extra' = x
  /\ Unkeyed({"extra"})
  /\ Forget
  /\ UNCHANGED <<text, found, flags, disk, pc, run>>

\* The command is over; its memory is gone but for what the properties ask.
End(r) ==
  /\ pc' = "idle"
  /\ result' = r
  /\ digest' = None
  /\ batches' = << >> /\ at' = 1 /\ merged' = Nothing /\ digests' = {}
  /\ force' = FALSE /\ hit' = FALSE /\ retried' = FALSE

\* One header is parsed directly and cached nowhere.
ParseSingle ==
  /\ pc = "idle"
  /\ Len(found) = 1
  /\ \/ Compiles(found) /\ spec' = Parsed(found) /\ result' = "ok"
     \/ (SaveFails \/ ~Compiles(found)) /\ spec' = None /\ result' = "error"
  /\ UNCHANGED <<inputs, groups, batch, pc, run, unkeyed>>

\* runBatchesWithCache from its first batch.
FirstBatch(bs) ==
  /\ pc' = "lookup"
  /\ batches' = bs
  /\ at' = 1
  /\ digest' = None
  /\ digests' = {}
  /\ merged' = Nothing

\* cmdParseHeaders up to its first batch.  Failed and killed runs leave batch
\* files behind: a bound on how many.
Start(f) ==
  /\ pc = "idle"
  /\ Len(found) > 1
  /\ Cardinality(DOMAIN batch) <= MaxFiles
  /\ LET cached == IF f THEN None ELSE groups
         usable == cached \notin {None, Corrupt} /\ cached.key = GroupKey
     IN  /\ groups' = cached
         /\ hit' = usable
         /\ FirstBatch(IF usable THEN cached.batches ELSE Split(found))
  /\ batch' = IF f THEN Nothing ELSE batch
  /\ force' = f
  /\ retried' = FALSE
  /\ Forget
  /\ UNCHANGED <<inputs, unkeyed>>

\* mergeAPISpec: what is there already is kept.
MergeAPISpec(dst, src) ==
  [h \in DOMAIN dst \cup DOMAIN src |-> IF h \in DOMAIN dst THEN dst[h] ELSE src[h]]

\* Mutant: only the digests of parsed batches are kept.
LookUpKeepsMisses ==
  /\ pc = "lookup"
  /\ at <= Len(batches)
  /\ LET d == Digest(batches[at])
     IN  IF ~force /\ d \in DOMAIN batch /\ batch[d] # Corrupt
         THEN merged' = MergeAPISpec(merged, batch[d]) /\ at' = at + 1
                /\ UNCHANGED <<pc, digest, digests>>
         ELSE digest' = d /\ digests' = digests \cup {d} /\ pc' = "parse"
                /\ UNCHANGED <<merged, at>>
  /\ UNCHANGED <<inputs, disk, spec, force, hit, retried, batches, result,
                 unkeyed>>

\* A batch's digest, and its cached specification if there is one.
LookUp ==
  /\ pc = "lookup"
  /\ at <= Len(batches)
  /\ LET d == Digest(batches[at])
     IN  /\ digests' = digests \cup {d}
         /\ IF ~force /\ d \in DOMAIN batch /\ batch[d] # Corrupt
            THEN merged' = MergeAPISpec(merged, batch[d]) /\ at' = at + 1
                   /\ UNCHANGED <<pc, digest>>
            ELSE digest' = d /\ pc' = "parse" /\ UNCHANGED <<merged, at>>
  /\ UNCHANGED <<inputs, disk, spec, force, hit, retried, batches, result,
                 unkeyed>>

\* SaveBatchAPISpec: batch-<d>.json holds p, whatever it held.
Written(d, p) ==
  [e \in DOMAIN batch \cup {d} |-> IF e = d THEN p ELSE batch[e]]

\* Mutant: what is saved is all that has been merged so far.
ParseSavesMerged ==
  /\ pc = "parse"
  /\ Compiles(batches[at])
  /\ merged' = MergeAPISpec(merged, Parsed(batches[at]))
  /\ batch' = Written(digest, merged')
  /\ at' = at + 1
  /\ digest' = None
  /\ pc' = "lookup"
  /\ UNCHANGED <<inputs, groups, spec, force, hit, retried, batches, digests,
                 result, unkeyed>>

\* runBatchClang succeeds; its specification is saved and merged.
Parse ==
  /\ pc = "parse"
  /\ Compiles(batches[at])
  /\ batch' = Written(digest, Parsed(batches[at]))
  /\ merged' = MergeAPISpec(merged, Parsed(batches[at]))
  /\ at' = at + 1
  /\ digest' = None
  /\ pc' = "lookup"
  /\ UNCHANGED <<inputs, groups, spec, force, hit, retried, batches, digests,
                 result, unkeyed>>

\* Mutant: the recomputed batches count as cached ones again.
RecomputeForever ==
  /\ pc = "parse"
  /\ ~Compiles(batches[at])
  /\ hit
  /\ groups' = None
  /\ FirstBatch(batches)
  /\ retried' = TRUE
  /\ UNCHANGED <<inputs, batch, spec, force, hit, result, unkeyed>>

\* clang fails on a batch from groups.json: the batches are computed afresh.
Recompute ==
  /\ pc = "parse"
  /\ ~Compiles(batches[at])
  /\ hit /\ ~retried
  /\ groups' = None
  /\ FirstBatch(Split(found))
  /\ retried' = TRUE
  /\ UNCHANGED <<inputs, batch, spec, force, hit, result, unkeyed>>

\* clang fails on a batch that has just been found to compile.
ParseFails ==
  /\ pc = "parse"
  /\ ~Compiles(batches[at])
  /\ ~hit \/ retried
  /\ End("error")
  /\ UNCHANGED <<inputs, disk, spec, unkeyed>>

\* The merged specification is written, unless it is empty; the deferred
\* function runs whatever becomes of it.
Save ==
  /\ pc = "lookup"
  /\ at > Len(batches)
  /\ pc' = "deferred"
  /\ \/ merged # Nothing /\ spec' = merged
          /\ result' = IF retried THEN "regrouped" ELSE "ok"
     \/ merged = Nothing /\ UNCHANGED spec /\ result' = "empty"
     \/ merged # Nothing /\ SaveFails /\ UNCHANGED spec /\ result' = "error"
  /\ UNCHANGED <<inputs, groups, batch, run, unkeyed>>

NewGroups == IF hit THEN groups ELSE [key |-> GroupKey, batches |-> batches]

\* The deferred function: groups.json, and PruneStaleBatches.
Deferred ==
  /\ pc = "deferred"
  /\ groups' = NewGroups
  /\ batch' = Restrict(batch, DOMAIN batch \cap digests)
  /\ End(result)
  /\ UNCHANGED <<inputs, spec, unkeyed>>

\* The process dies; a file it is writing may be left cut short.
Crash ==
  /\ MayCrash
  /\ pc # "idle"
  /\ \/ UNCHANGED disk
     \/ /\ pc = "parse" /\ Compiles(batches[at])
        /\ batch' = Written(digest, Corrupt) /\ UNCHANGED groups
     \/ /\ pc = "deferred" /\ ~hit
        /\ groups' \in {Corrupt, NewGroups} /\ UNCHANGED batch
  /\ spec' = None
  /\ End("none")
  /\ UNCHANGED <<inputs, unkeyed>>

Step == \/ \E f \in BOOLEAN : Start(f)
        \/ ParseSingle \/ LookUp \/ Parse \/ Recompute \/ ParseFails
        \/ Save \/ Deferred

Next == \/ \E h \in Header, t \in Text : Edit(h, t)
        \/ \E l \in Lists, f \in Flags : Rebuild(l, f)
        \/ \E x \in Extra : Reconfigure(x)
        \/ Step \/ Crash

Spec == Init /\ [][Next]_vars

\* A command that runs goes on running.
Working == LookUp \/ Parse \/ Recompute \/ ParseFails \/ Save \/ Deferred
FairSpec == Spec /\ WF_vars(Working)
-----------------------------------------------------------------------------
BatchDigest ==
  [texts : UNION {[H -> Text] : H \in SUBSET Header}, flags : Flags]

TypeOK ==
  /\ text \in [Header -> Text]
  /\ found \in Lists /\ flags \in Flags /\ extra \in Extra
  /\ DOMAIN batch \subseteq BatchDigest
  /\ pc \in {"idle", "lookup", "parse", "deferred"}
  /\ pc = "parse" => at \in 1..Len(batches) /\ digest \in BatchDigest
  /\ pc # "parse" => digest = None
  /\ at \in 1..Len(batches) + 1
  /\ digests \subseteq BatchDigest
  /\ {force, hit, retried} \subseteq BOOLEAN
  /\ result \in {"none", "ok", "regrouped", "empty", "error"}

\* After a successful parse-headers, whatever it took from the caches,
\* api-spec.json is what a run without caches would write; and it finds no
\* declarations only if there are none.
SpecIsFresh ==
  pc = "idle" => /\ result \in {"ok", "regrouped"} => spec = Cold
                 /\ result = "empty" => Cold = Nothing

\* So it is, after any failures, crashes and retries, as long as every change
\* is one the keys of the caches cover.
KeyedSpecIsFresh == unkeyed = {} => SpecIsFresh

\* A batch file holds what clang makes of the header texts and flags its
\* digest names, whatever failed or was killed, if no header was edited while
\* it was being parsed.
BatchesDescribeTexts ==
  "during" \notin unkeyed => \A d \in DOMAIN batch : batch[d] # Corrupt =>
    /\ DOMAIN batch[d] = DOMAIN d.texts
    /\ \A h \in DOMAIN d.texts : /\ batch[d][h].texts[h] = d.texts[h]
                                 /\ batch[d][h].flags = d.flags

\* After a successful run, one more with nothing changed calls clang for
\* nothing, unless the groups were found to be stale.
WarmAfterSuccess ==
  /\ pc = "idle" /\ result = "ok" /\ Len(found) > 1
  /\ "during" \notin unkeyed
  => /\ groups \notin {None, Corrupt} /\ groups.key = GroupKey
     /\ \A b \in Range(groups.batches) :
          Digest(b) \in DOMAIN batch /\ batch[Digest(b)] # Corrupt

\* Every command ends.
CommandEnds == pc # "idle" ~> pc = "idle"
=============================================================================
