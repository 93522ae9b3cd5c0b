---------------------------- MODULE KnowledgeStore ----------------------------
(***************************************************************************)
(* The manuals the agent quotes: the ingest command that writes their      *)
(* chunks (scripts/ingest_manuals.py, rag/ingest.py, rag/store/pgvector.py)*)
(* and the search of the knowledge server, which reads them in several     *)
(* statements and keeps a lexical index of its own (rag/lexical.py,        *)
(* mcp_knowledge/server.py).                                               *)
(*                                                                         *)
(* A manual is edited into new versions; a version is split into chunks, or*)
(* into none.  A chunk has an identity of its own for every time it is     *)
(* stored, which is what fusion tells candidates apart by.                 *)
(***************************************************************************)
EXTENDS Integers, FiniteSets

CONSTANTS
  Doc,
  Tagged,      \* manuals whose chunks have the equipment type asked for
  Empty,       \* versions that have no chunk after normalization
  Chunks,      \* chunks of any other version
  TopK,        \* rag_search_top_k
  MaxVersion,  \* bound: versions of a manual
  MaxRuns,     \* bound: runs of the command
  MaxQueries   \* bound: searches

KnowledgeAssumption ==
  /\ IsFiniteSet(Doc) /\ Tagged \subseteq Doc
  /\ Chunks \in Nat \ {0} /\ TopK \in Nat \ {0}
  /\ {MaxVersion, MaxRuns, MaxQueries} \subseteq Nat /\ Empty \subseteq 2..MaxVersion

VARIABLES
  file,      \* [Doc -> version in the documents directory], 0 outside the manifest
  stored,    \* knowledge_collection: chunks
  loads,     \* loads of manuals committed so far: tells identities apart
  command,   \* the ingest command: "idle", "loading", "complete", "failed"
  todo,      \* manuals it has still to load
  manifest,  \* the manifest it read
  runs,
  index,     \* the server's Bm25Index: chunks, None before its first use
  query,     \* the search: "idle", "filtered", "unfiltered", "lexical", "answered"
  found,     \* its candidates so far
  since,     \* history: chunks stored at some time since the server started
  queries

vars == <<file, stored, loads, command, todo, manifest, runs, index, query, found, since, queries>>

None == {[doc |-> "none", version |-> 0, part |-> 0, load |-> 0]}

ChunksOf(d, load) ==
  IF file[d] \in Empty THEN {}
  ELSE {[doc |-> d, version |-> file[d], part |-> i, load |-> load] : i \in 1..Chunks}

Init ==
  /\ file = [d \in Doc |-> 1]
  /\ stored = {} /\ loads = 0
  /\ command = "idle" /\ todo = {} /\ manifest = {} /\ runs = 0
  /\ index = None /\ query = "idle" /\ found = {} /\ since = {} /\ queries = 0

ingesting == <<command, todo, manifest, runs>>
searching == <<index, query, found, queries>>

\* A manual is edited, or taken out of the manifest.
Edit(d) ==
  /\ file[d] # 0
  /\ file' = [file EXCEPT ![d] = IF @ < MaxVersion THEN @ + 1 ELSE 0]
  /\ UNCHANGED <<stored, loads, ingesting, searching, since>>

-----------------------------------------------------------------------------
(* The command: one manual after the other, then the purge.                *)

ReadManifest ==
  /\ command # "loading" /\ runs < MaxRuns
  /\ command' = "loading" /\ runs' = runs + 1
  /\ manifest' = {d \in Doc : file[d] # 0} /\ todo' = manifest'
  /\ UNCHANGED <<file, stored, loads, searching, since>>

Store(chunks) == stored' = chunks /\ since' = since \cup chunks

\* upsert: what the manual had goes and the new chunks come in one transaction.
UpsertAdds(d, chunks) == stored \cup chunks   \* mutant: the old chunks stay
Upsert(d, chunks) == {c \in stored : c.doc # d} \cup chunks

\* ingest_document: a manual without chunks is left as it is stored.
Load(d) ==
  /\ command = "loading" /\ d \in todo /\ file[d] # 0
  /\ todo' = todo \ {d}
  /\ LET chunks == ChunksOf(d, loads + 1)
     IN IF chunks = {} THEN UNCHANGED <<stored, loads, since>>
        ELSE Store(Upsert(d, chunks)) /\ loads' = loads + 1
  /\ UNCHANGED <<file, command, manifest, runs, searching>>

\* purge_except; an empty manifest deletes nothing.
Purge ==
  /\ command = "loading" /\ todo = {}
  /\ Store(IF manifest = {} THEN stored ELSE {c \in stored : c.doc \in manifest})
  /\ command' = "complete"
  /\ UNCHANGED <<file, loads, todo, manifest, runs, searching>>

\* Parsing, embedding or the database fails: the command ends where it is.
Abort ==
  /\ command = "loading"
  /\ command' = "failed" /\ todo' = {}
  /\ UNCHANGED <<file, stored, loads, manifest, runs, searching, since>>

-----------------------------------------------------------------------------
(* search_manuals.                                                         *)

\* A vector search returns the nearest chunks, those too far away dropped.
Nearest(chunks) == {s \in SUBSET chunks : Cardinality(s) <= TopK}

Ask ==
  /\ query = "idle" /\ queries < MaxQueries
  /\ queries' = queries + 1 /\ query' = "filtered"
  /\ UNCHANGED <<file, stored, loads, ingesting, index, found, since>>

\* PgVectorStore.search: with the filter first, without it when that finds none.
SearchFiltered ==
  /\ query = "filtered"
  /\ IF \E c \in stored : c.doc \in Tagged
     THEN /\ found' \in Nearest({c \in stored : c.doc \in Tagged})
          /\ query' = "lexical"
     ELSE query' = "unfiltered" /\ UNCHANGED found
  /\ UNCHANGED <<file, stored, loads, ingesting, index, since, queries>>

SearchUnfiltered ==
  /\ query = "unfiltered"
  /\ found' \in Nearest(stored)
  /\ query' = "lexical"
  /\ UNCHANGED <<file, stored, loads, ingesting, index, since, queries>>

\* get_index: built from the store at its first use, then kept.
BuildIndex ==
  /\ query = "lexical" /\ index = None
  /\ index' = stored
  /\ UNCHANGED <<file, stored, loads, ingesting, query, found, since, queries>>

\* Candidates of both searches are one list by the identity of the chunk.
Fused(lexical) == {s \in SUBSET (found \cup lexical) : Cardinality(s) <= TopK}

\* _fuse_lexical and what follows only choose and order; the reranker that is
\* late or fails leaves the best TopK.
FuseLexical ==
  /\ query = "lexical" /\ index # None
  /\ \E lexical \in Nearest(index) : found' \in Fused(lexical)
  /\ query' = "answered"
  /\ UNCHANGED <<file, stored, loads, ingesting, index, since, queries>>

\* The lexical search fails, or is switched off: the vector search stands.
DenseOnly ==
  /\ query = "lexical"
  /\ query' = "answered"
  /\ UNCHANGED <<file, stored, loads, ingesting, index, found, since, queries>>

Answer ==
  /\ query = "answered"
  /\ query' = "idle" /\ found' = {}
  /\ UNCHANGED <<file, stored, loads, ingesting, index, since, queries>>

\* The server stops and starts: searches and index are gone.
Restart ==
  /\ index' = None /\ query' = "idle" /\ found' = {}
  /\ since' = stored
  /\ UNCHANGED <<file, stored, loads, ingesting, queries>>

Next ==
  \/ \E d \in Doc : Edit(d) \/ Load(d)
  \/ ReadManifest \/ Purge \/ Abort
  \/ Ask \/ SearchFiltered \/ SearchUnfiltered \/ BuildIndex \/ FuseLexical \/ DenseOnly
  \/ Answer \/ Restart

Spec == Init /\ [][Next]_vars

-----------------------------------------------------------------------------

\* Whenever a search reads and wherever the command stops, a manual is stored
\* whole and in one version (pgvector.py:36-48); after a run that ended well
\* only manuals of its manifest are stored, unless that was empty (:65-78).
\* What a search finds was stored at some time since the server started: the
\* lexical index may quote a version that is gone, but none from before
\* (lexical.py:89-134).
KnowledgeWhole ==
  /\ \A c \in stored : \A part \in 1..Chunks :
       {x \in stored : x.doc = c.doc /\ x.part = part} = {[c EXCEPT !.part = part]}
  /\ command = "complete" /\ manifest # {} => \A c \in stored : c.doc \in manifest
  /\ found \subseteq since
  /\ Cardinality(found) <= TopK

=============================================================================
