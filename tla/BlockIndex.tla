----------------------------- MODULE BlockIndex -----------------------------
(***************************************************************************)
(* The index of table contents.  A job of the optimization queue takes a   *)
(* table file apart and adds the file to a block per item found in it      *)
(* (vpt.blockindex.processor.ts, visualpinball.table.ts); removing files   *)
(* and releases takes them out again (file.schema.ts, release.schema.ts);  *)
(* the API compares files by the blocks they share                         *)
(* (file.blockmatch.api.ts).                                               *)
(* Jobs, removals and requests interleave between any two queries.         *)
(***************************************************************************)
EXTENDS Integers, Sequences, FiniteSetsExt, SequencesExt

CONSTANTS
  VptFiles,    \* table files
  Owner,       \* the release each is uploaded for
  Streams,     \* per file and kind, its streams: sequences of chunks [tag |-> ..., data |-> ...]
  Bytes,       \* the size of the data of a chunk
  Empty        \* the data of a chunk that has none

Kinds == {"image", "sound", "gameitem", "collection"}
Shelves == {Owner[f] : f \in VptFiles}

\* NAME stands for every tag that is nothing special here; what is not tagged has "".
ChunkTags == {"", "NAME", "FONT", "DATA"}
Chunks == [tag : ChunkTags, data : DOMAIN Bytes]

ASSUME BlockAssumption ==
  /\ \A f \in VptFiles : Streams[f] \in [Kinds -> Seq(Seq(Chunks))]
  /\ \A d \in DOMAIN Bytes : Bytes[d] \in Nat

VARIABLES
  block,    \* the collection of blocks, one per hash
  vpt,      \* the documents of table files
  indexing, \* the job of each file
  shelf,    \* the releases
  late      \* history: the files taken out of the index while a job was at work on it

blockVars == <<block, vpt, indexing, shelf, late>>

-----------------------------------------------------------------------------
\* The positions of the blocks: chunks of a font and those without data are skipped.
ParseBiff(stream) == {i \in DOMAIN stream : stream[i].tag # "FONT" /\ stream[i].data # Empty}

\* Reading stops behind an empty block.
ParseUntaggedBiff(stream) ==
  LET ends == {i \in DOMAIN stream : stream[i].data = Empty}
  IN IF ends = {} THEN stream ELSE SubSeq(stream, 1, Min(ends))

Data(d) == <<[tag |-> "", data |-> d]>>

\* The picture without its name, path and size.
ParseImage(stream) ==
  LET pictures == {i \in ParseBiff(stream) : stream[i].tag = "DATA"}
  IN IF pictures = {} THEN << >> ELSE Data(stream[Max(pictures)].data)

\* What follows the name, the path and the id.
ParseSound(blocks) == IF Len(blocks) < 4 THEN << >> ELSE Data(blocks[4].data)

\* Game items and collections are hashed with their names; and so is what cannot be parsed.
Hashed(kind, stream) ==
  LET parsed == CASE kind = "image" -> ParseImage(stream)
                  [] kind = "sound" -> ParseSound(ParseUntaggedBiff(stream))
                  [] OTHER -> << >>
  IN IF parsed = << >> THEN stream ELSE parsed

\* The blocks of each file, as its streams are read.
AnalyzeFile ==
  [f \in VptFiles |->
     LET hashes(k) == [i \in DOMAIN Streams[f][k] |-> Hashed(k, Streams[f][k][i])]
     IN hashes("image") \o hashes("sound") \o hashes("gameitem") \o hashes("collection")]

\* Equal ones count once.
Blocks == [f \in VptFiles |-> ToSet(AnalyzeFile[f])]
Hashes == UNION {Blocks[f] : f \in VptFiles}
FirstOf(f, hashes) == AnalyzeFile[f][Min({i \in DOMAIN AnalyzeFile[f] : AnalyzeFile[f][i] \in hashes})]
Size(h) == MapThenSumSet(LAMBDA i : Bytes[h[i].data], DOMAIN h)

-----------------------------------------------------------------------------
NoBlock == [there |-> FALSE, files |-> {}, rev |-> 0]
NotIndexing == [at |-> "none", doc |-> << >>, todo |-> {}]

\* rev: __v; it goes on when a block is removed, as the next one has another id.
BlockInit ==
  /\ block = [h \in Hashes |-> NoBlock]
  /\ vpt = [f \in VptFiles |-> "absent"]
  /\ indexing = [f \in VptFiles |-> NotIndexing]
  /\ shelf = [r \in Shelves |-> [at |-> "absent", todo |-> {}]]
  /\ late = {}

\* A table is uploaded; its job waits.
UploadTable(f) ==
  /\ vpt[f] = "absent"
  /\ vpt' = [vpt EXCEPT ![f] = "stored"]
  /\ indexing' = [indexing EXCEPT ![f].at = "waiting"]
  /\ UNCHANGED <<block, shelf, late>>

\* The job analyzes the file and reads the blocks there are.  It does nothing for a file
\* that is gone.
FindBlocks(f) ==
  LET found == {h \in Blocks[f] : block[h].there} IN
  /\ indexing[f].at = "waiting"
  /\ indexing' = [indexing EXCEPT ![f] =
       IF vpt[f] = "stored" /\ Blocks[f] # {}
         THEN [at |-> "work", doc |-> [h \in found |-> block[h]], todo |-> Blocks[f]]
         ELSE [NotIndexing EXCEPT !.at = "done"]]
  /\ UNCHANGED <<block, vpt, shelf, late>>

\* A failed save ends the job: the error is logged and nobody retries.
Saved(f, h) ==
  [indexing EXCEPT ![f].todo = @ \ {h}, ![f].at = IF indexing[f].todo = {h} THEN "done" ELSE "work"]
Failed(f) == [indexing EXCEPT ![f] = [NotIndexing EXCEPT !.at = "failed"]]

\* A block nobody had when it looked, refused if somebody has inserted it since.
InsertBlock(f) ==
  LET new == indexing[f].todo \ DOMAIN indexing[f].doc
      h == FirstOf(f, new)
  IN
  /\ indexing[f].at = "work" /\ new # {}
  /\ IF block[h].there
       THEN indexing' = Failed(f) /\ UNCHANGED block
       ELSE /\ indexing' = Saved(f, h)
            /\ block' = [block EXCEPT ![h] = [there |-> TRUE, files |-> {f}, rev |-> block[h].rev + 1]]
  /\ UNCHANGED <<vpt, shelf, late>>

\* The array of a block it has read is set as a whole, guarded by __v.
SaveBlock(f, current(_)) ==
  LET doc == indexing[f].doc
      h == FirstOf(f, indexing[f].todo)
  IN
  /\ indexing[f].at = "work" /\ indexing[f].todo \subseteq DOMAIN doc
  /\ IF current(h)
       THEN /\ indexing' = Saved(f, h)
            /\ block' = [block EXCEPT ![h].files = doc[h].files \cup {f}, ![h].rev = @ + 1]
       ELSE indexing' = Failed(f) /\ UNCHANGED block
  /\ UNCHANGED <<vpt, shelf, late>>

\* Mutant of UpdateBlock: __v is not compared.
UpdateUnguarded(f) == SaveBlock(f, LAMBDA h : block[h].there)

UpdateBlock(f) == SaveBlock(f, LAMBDA h : block[h].there /\ block[h].rev = indexing[f].doc[h].rev)

-----------------------------------------------------------------------------
FilesOf(r) == {f \in VptFiles : Owner[f] = r}
Working == {f \in VptFiles : indexing[f].at = "work"}

\* Every block that lists nobody is removed.
Sweep == block' = [h \in Hashes |->
                     IF block[h].files = {} THEN [NoBlock EXCEPT !.rev = block[h].rev] ELSE block[h]]

\* The release with the tables it is made for.
Publish(r) ==
  /\ shelf[r].at = "absent"
  /\ \A f \in FilesOf(r) : vpt[f] = "stored"
  /\ shelf' = [shelf EXCEPT ![r].at = "public"]
  /\ UNCHANGED <<block, vpt, indexing, late>>

\* ReleaseApi.del
BeginRemoval(r) ==
  /\ shelf[r].at = "public"
  /\ shelf' = [shelf EXCEPT ![r] = [at |-> "pull", todo |-> FilesOf(r)]]
  /\ UNCHANGED <<block, vpt, indexing, late>>

\* releaseSchema.pre("remove"): the file is taken out of one block, as updateOne does;
\* the removal of the file will see to the others.
PullOne(r, f, h) ==
  /\ shelf[r].at = "pull" /\ f \in shelf[r].todo
  /\ f \in block[h].files \/ \A b \in Hashes : f \notin block[b].files
  /\ block' = [block EXCEPT ![h].files = @ \ {f}]
  /\ shelf' = [shelf EXCEPT ![r].todo = @ \ {f}]
  /\ UNCHANGED <<vpt, indexing, late>>

\* The blocks are swept, and the release is gone.
SweepRelease(r) ==
  /\ shelf[r].at = "pull" /\ shelf[r].todo = {}
  /\ Sweep
  /\ shelf' = [shelf EXCEPT ![r].at = "gone"]
  /\ UNCHANGED <<vpt, indexing, late>>

\* By the plugin after its release, or by FileApi.del before there is one.
RemoveTable(f) ==
  /\ vpt[f] = "stored" /\ shelf[Owner[f]].at \in {"absent", "gone"}
  /\ vpt' = [vpt EXCEPT ![f] = "removed"]
  /\ UNCHANGED <<block, indexing, shelf, late>>

\* fileSchema.post("remove"), which waits for no job.
PullBlocks(f) ==
  /\ vpt[f] = "removed"
  /\ block' = [h \in Hashes |-> [block[h] EXCEPT !.files = @ \ {f}]]
  /\ vpt' = [vpt EXCEPT ![f] = "pulled"]
  /\ late' = IF Working = {} THEN late ELSE late \cup {f}
  /\ UNCHANGED <<indexing, shelf>>

SweepBlocks(f) ==
  /\ vpt[f] = "pulled"
  /\ Sweep
  /\ vpt' = [vpt EXCEPT ![f] = "gone"]
  /\ UNCHANGED <<indexing, shelf, late>>

BlockStep ==
  \/ \E f \in VptFiles :
       \/ UploadTable(f) \/ FindBlocks(f) \/ RemoveTable(f) \/ PullBlocks(f) \/ SweepBlocks(f)
       \/ InsertBlock(f) \/ UpdateBlock(f)
  \/ \E r \in Shelves :
       \/ Publish(r) \/ BeginRemoval(r) \/ SweepRelease(r)
       \/ \E f \in VptFiles, h \in Hashes : PullOne(r, f, h)

BlockSpec == BlockInit /\ [][BlockStep]_blockVars

-----------------------------------------------------------------------------
BlocksOf(f) == {h \in Hashes : block[h].there /\ f \in block[h].files}
TotalBytes(hashes) == MapThenSumSet(Size, hashes)

\* The shares of the blocks and of the bytes in common make more than 50% together.
Alike(common, all) ==
  2 * (Cardinality(common) * TotalBytes(all) + TotalBytes(common) * Cardinality(all))
    > Cardinality(all) * TotalBytes(all)

\* FileBlockmatchApi.blockmatch: other published files that share enough of the blocks of f.
Blockmatch(f, includeSameRelease) ==
  {g \in (UNION {block[h].files : h \in BlocksOf(f)}) \ {f} :
     /\ shelf[Owner[g]].at = "public" /\ g \in FilesOf(Owner[g])
     /\ Alike({h \in BlocksOf(f) : g \in block[h].files}, BlocksOf(f))
     /\ includeSameRelease \/ Owner[g] # Owner[f]}

\* What two tables have in common, from their streams: a picture or a sound under any name; a
\* stream without a picture, or of a sound that lacks a name, a path or an id, as it is.
PictureOf(s) ==
  LET pictures == {i \in DOMAIN s : s[i].tag = "DATA" /\ s[i].data # Empty}
  IN IF pictures = {} THEN s ELSE Data(s[CHOOSE i \in pictures : \A j \in pictures : j <= i].data)
SoundOf(s) == IF Len(s) >= 4 /\ (\A i \in 1 .. 3 : s[i].data # Empty) THEN Data(s[4].data) ELSE s

Contents(f) ==
  {PictureOf(s) : s \in ToSet(Streams[f]["image"])} \cup {SoundOf(s) : s \in ToSet(Streams[f]["sound"])}
  \cup ToSet(Streams[f]["gameitem"]) \cup ToSet(Streams[f]["collection"])

\* The matches of a published file among the published files are those with the contents for
\* it, once the jobs of the two are done - whatever failed or was removed beside them; and
\* when nothing is under way the index lists no file that is gone, unless it was taken out
\* while a job was at work, and no empty block (vpt.blockindex.processor.ts:69-80 against
\* file.schema.ts:158-163).
MatchesByContent ==
  /\ \A f, g \in {x \in VptFiles : indexing[x].at = "done" /\ shelf[Owner[x]].at = "public"} :
       f # g => (g \in Blockmatch(f, TRUE) <=> Alike(Contents(f) \cap Contents(g), Contents(f)))
  /\ (/\ Working = {}
      /\ \A f \in VptFiles : vpt[f] \in {"absent", "stored", "gone"}
      /\ \A r \in Shelves : shelf[r].at # "pull") =>
       \A h \in Hashes : /\ block[h].files \subseteq {f \in VptFiles : vpt[f] = "stored"} \cup late
                         /\ block[h].there <=> block[h].files # {}

=============================================================================
