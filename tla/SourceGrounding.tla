-------------------------- MODULE SourceGrounding --------------------------
(***************************************************************************)
(* examples/source_grounded_rag/code.py and                                *)
(* examples/answer_grounding_eval/code.py: an index of Markdown files,     *)
(* a search that shows only evidence it can still find in the files, and   *)
(* the verifier of an answer that cites this evidence.  The files are      *)
(* edited at any time; a sync reads them one by one, publishes the index   *)
(* file and then adopts it; it may fail or die at each of these points.    *)
(*                                                                         *)
(* A document is a sequence of paragraphs, a range of lines a range of     *)
(* paragraphs, a digest the text it is taken from; max_chars is how many   *)
(* paragraphs a chunk may hold.                                            *)
(***************************************************************************)
EXTENDS Naturals, Sequences, FiniteSets, SequencesExt

CONSTANTS
    Doc,            \* source paths, numbers in their order
    Content,        \* texts of documents that are written
    Unsafe,         \* paragraphs that try to override the prompt
    Query,          \* paragraphs a query scores, best first
    ChunkSize, TopK, Budget,
    MaxChanges, MaxGeneration, MaxSearches,     \* bounds
    None

VARIABLES
    corpus,         \* the text of each document on disk, or None
    file,           \* the index file
    index,          \* SourceIndex
    maxChars,       \* SourceIndex.max_chars
    sync,           \* what a running sync has read so far
    evidence,       \* evidence sets shown so far, the last one current
    accepted,       \* the answer that verify has just passed, or None
    changes

vars == <<corpus, file, index, maxChars, sync, evidence, accepted, changes>>

NewIndex == [generation |-> 0, settings |-> None,
             documents |-> [d \in Doc |-> None], tombstones |-> <<>>]
Idle == [pc |-> "idle"]

Init ==
    /\ corpus \in [Doc -> Content \union {None}]
    /\ file = NewIndex /\ index = NewIndex
    /\ maxChars \in ChunkSize
    /\ sync = Idle
    /\ evidence = <<>> /\ accepted = None
    /\ changes = 0

-----------------------------------------------------------------------------
(* chunk_markdown *)

\* Faulty variant: only the chunk that holds the override text is unsafe.
UnsafeChunk(text, chunk) == \E i \in DOMAIN chunk : chunk[i] \in Unsafe

\* One override text keeps the whole document out of every prompt.
UnsafeReason(text, chunk) == \E i \in DOMAIN text : text[i] \in Unsafe

ChunkMarkdown(d, text, size) ==
    LET starts == {i \in DOMAIN text : (i - 1) % size = 0}
        End(i) == IF i + size - 1 < Len(text) THEN i + size - 1 ELSE Len(text)
        Piece(i) == SubSeq(text, i, End(i))
    IN  {[doc |-> d, from |-> i, to |-> End(i), text |-> Piece(i),
          occurrence |-> Cardinality({j \in starts : j < i /\ Piece(j) = Piece(i)}),
          unsafe |-> UnsafeReason(text, Piece(i))] : i \in starts}

ChunkId(c) == <<c.doc, c.text, c.occurrence>>
Citation(c) == <<c.doc, c.from, c.to>>

Active(idx) == {d \in Doc : idx.documents[d] # None}
Chunks(idx) == UNION {idx.documents[d].chunks : d \in Active(idx)}

-----------------------------------------------------------------------------
(* SourceIndex.sync *)

Other == UNCHANGED <<corpus, maxChars, evidence, changes>> /\ accepted' = None

\* Faulty variant: a deletion goes to the live list of tombstones.
DiscoveredDeleting(found) ==
    [index EXCEPT !.tombstones = @ \o SetToSeq({[doc |-> d, generation |-> index.generation + 1] :
                                               d \in Active(index) \ found})]

\* The live index is the same until the new one is published.
Discovered(found) == index

Discover ==
    /\ sync.pc = "idle" /\ index.generation < MaxGeneration
    /\ LET found == {d \in Doc : corpus[d] # None}
       IN  /\ sync' = [pc |-> "read", found |-> found,
                       documents |-> [d \in Doc |-> None]]
           /\ index' = Discovered(found)
    /\ UNCHANGED file /\ Other

\* Faulty variant: chunks are taken over whatever size they were cut to.
ReusableAnySize(d, text) ==
    /\ index.documents[d] # None
    /\ index.documents[d].hash = text

Reusable(d, text) ==
    /\ index.documents[d] # None
    /\ index.documents[d].hash = text
    /\ index.settings = maxChars

\* A file that is gone, or is empty, raises: see Fail.
ReadDocument(d) ==
    /\ sync.pc = "read" /\ d \in sync.found /\ sync.documents[d] = None
    /\ corpus[d] \notin {None, <<>>}
    /\ sync' = [sync EXCEPT !.documents[d] =
           [hash |-> corpus[d],
            chunks |-> IF Reusable(d, corpus[d]) THEN index.documents[d].chunks
                                                 ELSE ChunkMarkdown(d, corpus[d], maxChars)]]
    /\ UNCHANGED <<file, index>> /\ Other

NextGeneration == index.generation + 1

Proposed ==
    [generation |-> NextGeneration, settings |-> maxChars, documents |-> sync.documents,
     tombstones |-> index.tombstones \o
         SetToSortSeq({[doc |-> d, generation |-> NextGeneration] :
                          d \in {e \in Active(index) : sync.documents[e] = None}},
                      LAMBDA s, t : s.doc < t.doc)]

\* _write: os.replace is the publication.
Publish ==
    /\ sync.pc = "read" /\ \A d \in sync.found : sync.documents[d] # None
    /\ file' = Proposed
    /\ sync' = [pc |-> "adopt", next |-> Proposed]
    /\ UNCHANGED index /\ Other

Adopt ==
    /\ sync.pc = "adopt"
    /\ index' = sync.next /\ sync' = Idle
    /\ UNCHANGED file /\ Other

\* A scan, a read, a chunking or a write raises.
Fail ==
    /\ sync.pc = "read"
    /\ sync' = Idle
    /\ UNCHANGED <<file, index>> /\ Other

\* _load; max_chars is an argument of the next process.
Restart(size) ==
    /\ changes < MaxChanges /\ changes' = changes + 1
    /\ index' = file /\ maxChars' = size
    /\ sync' = Idle /\ evidence' = <<>> /\ accepted' = None
    /\ UNCHANGED <<corpus, file>>

-----------------------------------------------------------------------------
(* validate_chunk and OfflineBM25Retriever.search *)

ValidateChunk(c) ==
    /\ index.settings = maxChars
    /\ c.doc \in Active(index)
    /\ ChunkId(c) \in {ChunkId(k) : k \in index.documents[c.doc].chunks}
    /\ corpus[c.doc] = index.documents[c.doc].hash
    /\ c.to <= Len(corpus[c.doc])
    /\ SubSeq(corpus[c.doc], c.from, c.to) = c.text

Scored(query) ==
    LET Matches(c) == {r \in DOMAIN query : \E i \in DOMAIN c.text : c.text[i] = query[r]}
        Rank(c) == CHOOSE r \in Matches(c) : \A s \in Matches(c) : r <= s
        Before(b, c) == \/ Rank(b) < Rank(c)
                        \/ Rank(b) = Rank(c) /\ b.doc < c.doc
                        \/ Rank(b) = Rank(c) /\ b.doc = c.doc /\ b.from < c.from
    IN  SetToSortSeq({c \in Chunks(index) : /\ ~c.unsafe /\ ValidateChunk(c)
                                            /\ Matches(c) # {}}, Before)

Hits(query, topK, budget) ==
    LET Used(hits) == FoldLeft(LAMBDA n, h : n + Len(h.text), 0, hits)
        Take(hits, c) ==
            IF /\ Len(hits) < topK
               /\ \A h \in DOMAIN hits : hits[h].text # c.text
               /\ Used(hits) + Len(c.text) <= budget
            THEN Append(hits, c) ELSE hits
    IN  FoldLeft(Take, <<>>, Scored(query))

\* from_search_result: the digest covers the query and its records.
EvidenceSet(query, hits) == [query |-> query, records |-> hits]

Search(query, topK, budget) ==
    /\ sync.pc = "idle" /\ Len(evidence) < MaxSearches
    /\ evidence' = Append(evidence, EvidenceSet(query, Hits(query, topK, budget)))
    /\ accepted' = None
    /\ UNCHANGED <<corpus, file, index, maxChars, sync, changes>>

-----------------------------------------------------------------------------
(* AnswerVerifier.verify *)

\* Faulty variant: a chunk that is still indexed is taken to be current.
FreshIndexed(c) == c \in Chunks(index)

Fresh(c) == ValidateChunk(c)

\* Each check of one citation, after which the loop goes on to the next one.
ValidCitation(ref, records) ==
    /\ ref.label \in DOMAIN records
    /\ ref.citation = Citation(records[ref.label])
    /\ \E c \in Chunks(index) : ChunkId(c) = ChunkId(records[ref.label]) /\ Fresh(c)
    /\ \E i \in DOMAIN records[ref.label].text : records[ref.label].text[i] = ref.quote

NoIssues(answer) ==
    /\ answer.evidence = Last(evidence)
    /\ IF answer.abstained THEN answer.claims = <<>> /\ answer.reason
                           ELSE answer.claims # <<>> /\ ~answer.reason
    /\ \A k \in DOMAIN answer.claims :
          /\ answer.claims[k] # <<>> /\ IsInjective(answer.claims[k])
          /\ \A r \in DOMAIN answer.claims[k] :
                ValidCitation(answer.claims[k][r], answer.evidence.records)

\* GroundedAnswer: what a model may say about the evidence sets it has seen.
Paragraph == UNION {{text[i] : i \in DOMAIN text} : text \in Content}
Ref == LET records == UNION {{evidence[n].records[i] : i \in DOMAIN evidence[n].records} :
                             n \in DOMAIN evidence}
       IN  [label : 1..2, citation : {Citation(c) : c \in records}, quote : Paragraph]
AnswerClaim == {<<>>} \union {<<r>> : r \in Ref} \union {<<r, s>> : r, s \in Ref}
Answer ==
    [evidence : {evidence[n] : n \in DOMAIN evidence},
     claims : {<<>>} \union {<<claim>> : claim \in AnswerClaim},
     abstained : BOOLEAN, reason : BOOLEAN]

Verify ==
    /\ sync.pc = "idle" /\ evidence # <<>>
    /\ \E answer \in Answer : NoIssues(answer) /\ accepted' = answer
    /\ UNCHANGED <<corpus, file, index, maxChars, sync, evidence, changes>>

-----------------------------------------------------------------------------
(* What others do to the files and to the settings. *)

Edit(d, text) ==
    /\ changes < MaxChanges /\ changes' = changes + 1
    /\ corpus[d] # text /\ corpus' = [corpus EXCEPT ![d] = text]
    /\ accepted' = None
    /\ UNCHANGED <<file, index, maxChars, sync, evidence>>

Next ==
    \/ Discover \/ Publish \/ Adopt \/ Fail
    \/ \E d \in Doc : ReadDocument(d)
    \/ \E size \in ChunkSize : Restart(size)
    \/ \E q \in Query, k \in TopK, b \in Budget : Search(q, k, b)
    \/ Verify
    \/ \E d \in Doc, text \in Content \union {None} : Edit(d, text)

Spec == Init /\ [][Next]_vars

-----------------------------------------------------------------------------
(* Properties *)

\* Between two syncs the live index is the file: a sync that failed has
\* changed nothing, and no deletion is recorded twice by its retry.
LiveIsPublished ==
    /\ sync.pc = "idle" => index = file
    /\ \A i, j \in DOMAIN file.tombstones :
          file.tombstones[i] = file.tombstones[j] => i = j

\* The chunks of a published index are those its documents give when they are
\* cut to the size the index records.
CutAsRecorded ==
    \A d \in Active(file) :
        file.documents[d].chunks = ChunkMarkdown(d, file.documents[d].hash, file.settings)

\* What a search shows stands in its document at the lines it names, and no
\* paragraph of that document tries to override the prompt.
ShowsSafeEvidence ==
    Len(evidence') > Len(evidence) =>
        \A i \in DOMAIN Last(evidence').records :
            LET c == Last(evidence').records[i]
            IN  /\ SubSeq(corpus[c.doc], c.from, c.to) = c.text
                /\ \A p \in DOMAIN corpus[c.doc] : corpus[c.doc][p] \notin Unsafe

EvidenceSafe == [][ShowsSafeEvidence]_vars

Refs == IF accepted = None THEN {}
        ELSE UNION {{accepted.claims[k][r] : r \in DOMAIN accepted.claims[k]} :
                    k \in DOMAIN accepted.claims}

\* An answer passes only with quotes that the cited document still holds.
AnswerQuotesSource ==
    \A ref \in Refs :
        /\ corpus[ref.citation[1]] # None
        /\ \E i \in DOMAIN corpus[ref.citation[1]] : corpus[ref.citation[1]][i] = ref.quote

\* ... and at the lines the citation names.
CitedLinesHold ==
    \A ref \in Refs :
        /\ corpus[ref.citation[1]] # None
        /\ \E i \in ref.citation[2]..ref.citation[3] :
              i \in DOMAIN corpus[ref.citation[1]] /\ corpus[ref.citation[1]][i] = ref.quote
=============================================================================
