---------------------------- MODULE CourseListing ----------------------------
(***************************************************************************)
(* `ccc course list` while the setups of CourseSetup come and go: the      *)
(* course blocks are listed page by page, then loaded one by one.  Prefect *)
(* (external) keeps the block documents in one order; the blocks of other  *)
(* courses stay as they are.                                               *)
(***************************************************************************)
EXTENDS CourseSetup

CONSTANTS
  Documents,   \* the block documents in Prefect's order, this course's included
  Own,         \* the place of this course's among them
  Anonymous,   \* a block document without a name
  PageSize     \* BLOCK_DOCUMENT_PAGE_SIZE

\* A name is given once to the blocks of a type.
ASSUME DocumentsAssumption ==
  /\ Documents \in Seq(ToSet(Documents))
  /\ Own \in DOMAIN Documents /\ Documents[Own] # Anonymous
  /\ \A i, j \in DOMAIN Documents :
       Documents[i] = Documents[j] /\ Documents[i] # Anonymous => i = j
ASSUME PageSizeAssumption == PageSize \in Nat \ {0}

VARIABLES
  lpc,      \* where the listing is
  offset,   \* documents read so far
  pages,    \* ... and which, in the order they were read
  rows,     \* of them, by their place in pages: was the block loaded
  atStart,  \* named documents when the listing started (history)
  changes   \* what happened to the course's block since: saves, deletions (history)

listing == <<lpc, offset, pages, rows, atStart, changes>>

Listing == lpc \in {"page", "load"}

\* Mutant: a document without a name is listed like the others.
Named_All(docs) == DOMAIN docs

\* The places in docs of the documents with a name.
Named(docs) == {i \in DOMAIN docs : docs[i] # Anonymous}

\* The documents there are: the course's own while its block is saved.
Present == IF block # None THEN Documents ELSE RemoveAt(Documents, Own)

ListingTypeOK ==
  /\ lpc \in {"idle", "page", "load", "done", "failed"}
  /\ pages \in Seq(ToSet(Documents))
  /\ offset = Len(pages) /\ offset <= Len(Documents)
  /\ rows \subseteq {i \in DOMAIN pages : pages[i] # Anonymous} \X BOOLEAN
  /\ atStart \subseteq ToSet(Documents) \ {Anonymous}
  /\ changes \subseteq {"saved", "deleted"}

ListingInit ==
  /\ Init
  /\ lpc = "idle" /\ offset = 0 /\ pages = <<>> /\ rows = {}
  /\ atStart = {} /\ changes = {}

StartListing ==
  /\ lpc = "idle"
  /\ lpc' = "page"
  /\ atStart' = {Present[i] : i \in Named(Present)}
  /\ UNCHANGED <<vars, offset, pages, rows, changes>>

\* offset and limit of one call.
Page == SubSeq(Present, offset + 1, Min({offset + PageSize, Len(Present)}))

\* Mutant: a full page that may be the last is taken for it.
IsLast_Full(page) == Len(page) <= PageSize

IsLast(page) == Len(page) < PageSize

\* Mutant: documents without a name do not count.
ReadPage_NamedOnly ==
  /\ lpc = "page"
  /\ pages' = pages \o Page
  /\ offset' = offset + Cardinality(Named(Page))
  /\ lpc' = IF IsLast(Page) THEN "load" ELSE "page"
  /\ UNCHANGED <<vars, rows, atStart, changes>>

\* A block type that was never registered answers 404, which is an empty list.
ReadPage ==
  /\ lpc = "page"
  /\ pages' = pages \o Page
  /\ offset' = offset + Len(Page)
  /\ lpc' = IF IsLast(Page) THEN "load" ELSE "page"
  /\ UNCHANGED <<vars, rows, atStart, changes>>

Loaded == {row[1] : row \in rows}

\* A row of the course's settings, or of what loading its block raised, which it
\* may also while the block is there.  The names are sorted, so the order they
\* were read in is not the one they are loaded in.
LoadListed(i) ==
  /\ lpc = "load" /\ i \in Named(pages) \ Loaded
  /\ \E valid \in BOOLEAN :
       /\ valid => pages[i] \in ToSet(Present)
       /\ rows' = rows \cup {<<i, valid>>}
  /\ UNCHANGED <<vars, lpc, offset, pages, atStart, changes>>

ListingDone ==
  /\ lpc = "load" /\ Loaded = Named(pages)
  /\ lpc' = "done"
  /\ UNCHANGED <<vars, offset, pages, rows, atStart, changes>>

ListingFails ==
  /\ lpc = "page"
  /\ lpc' = "failed"
  /\ UNCHANGED <<vars, offset, pages, rows, atStart, changes>>

\* A step of the setups and the flow runs, as the listing sees it.
CourseChanges ==
  /\ Next
  /\ changes' = IF ~Listing \/ block' = block THEN changes
                ELSE changes \cup {IF block' = None THEN "deleted" ELSE "saved"}
  /\ UNCHANGED <<lpc, offset, pages, rows, atStart>>

List ==
  \/ StartListing \/ ReadPage \/ (\E i \in DOMAIN pages : LoadListed(i))
  \/ ListingDone \/ ListingFails

ListingNext == CourseChanges \/ List

ListingSpec == ListingInit /\ [][ListingNext]_<<vars, listing>>

------------------------------------------------------------------------------
(* Properties *)

\* "Return every available course block name", however the blocks fall on the
\* pages, the nameless ones among them: a course that was there when the listing
\* started is on it unless a block was deleted meanwhile (which shifts the pages),
\* and none is on it twice unless one was saved meanwhile.  In the end each has a
\* row in the table, whether or not its block and those before it could be loaded.
EveryCourseListed ==
  /\ lpc \in {"load", "done"} =>
       /\ "deleted" \notin changes => atStart \subseteq ToSet(pages)
       /\ "saved" \notin changes =>
            \A i, j \in Named(pages) : pages[i] = pages[j] => i = j
  /\ lpc = "done" => Loaded = Named(pages)

\* Why: a course of the start is on a page read or to come, and only a deletion
\* moves it to one already read;
Behind(doc) == \E k \in DOMAIN Present : k > offset /\ Present[k] = doc

ToCome ==
  "deleted" \notin changes =>
    /\ lpc = "page" => \A doc \in atStart : doc \in ToSet(pages) \/ Behind(doc)
    /\ lpc \in {"load", "done"} => atStart \subseteq ToSet(pages)

\* and a course read is on no page to come, unless a saved block moves it to one.
ReadOnce ==
  "saved" \notin changes =>
    /\ \A i, j \in Named(pages) : pages[i] = pages[j] => i = j
    /\ lpc = "page" => \A i \in Named(pages) : ~Behind(pages[i])

ListingInv ==
  /\ ListingTypeOK /\ ToCome /\ ReadOnce
  /\ lpc = "idle" => pages = <<>> /\ rows = {} /\ changes = {}
  /\ lpc = "done" => Loaded = Named(pages)
=============================================================================
