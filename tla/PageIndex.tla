----------------------------- MODULE PageIndex -----------------------------
(***************************************************************************)
(* The pages of the knowledge and wisdom layers: the files of the vault    *)
(* and what the index holds of them.  Synth and LintApply extend this      *)
(* module with the tasks that change both.                                 *)
(*                                                                         *)
(* _persist_layered_page (page_index.py) projects a file into the index by *)
(* storage calls that commit one by one: the row first, already active and *)
(* with the new hash, then the chunks, their vectors, the outgoing links   *)
(* and the provenance edges.  An active row is what makes the rest         *)
(* visible, so whoever persists has to deactivate the row if a later call  *)
(* fails.                                                                  *)
(*                                                                         *)
(* Abstractions: the content of a page is a small number, which is also    *)
(* its hash; chunks, links and provenance are the content they were taken  *)
(* from.  Vectors are in EmbedIndex: here they are an await that may fail. *)
(***************************************************************************)
EXTENDS Naturals

CONSTANTS
    Page,                   \* paths under knowledge/ and wisdom/
    MaxBody                 \* bound: contents of a page

ASSUME PageAssumption == MaxBody \in Nat \ {0}

VARIABLES
    file,                   \* file[p]: the content of p's file, 0 for none
    hash,                   \* hash[p]: of p's row, 0 for no row
    active,                 \* the pages whose row is active
    part                    \* part[p][c]: what p's chunks, links, ... are from

index == <<hash, active, part>>

Body    == 1..MaxBody
Content == 0..MaxBody
Part    == {"chunks", "links", "sources"}
Nothing == [c \in Part |-> 0]

Exists(p) == hash[p] # 0
Whole(p)  == \A c \in Part : part[p][c] = hash[p]

IndexTypeOK ==
    /\ file \in [Page -> Content] /\ hash \in [Page -> Content]
    /\ active \subseteq {p \in Page : Exists(p)}
    /\ part \in [Page -> [Part -> Content]]

-----------------------------------------------------------------------------
(* The storage calls.  Chunks need a row; links and provenance do not.     *)

Persisting == {"upsert", "chunks", "vectors", "links", "sources"}
Writing    == Persisting \cup {"hide", "purge"}

Refused(c, p) == c = "chunks" /\ ~Exists(p)

Execute(c, p, v) ==
    /\ ~Refused(c, p)
    /\ hash'   = CASE c = "upsert" -> [hash EXCEPT ![p] = v]
                   [] c = "purge"  -> [hash EXCEPT ![p] = 0]
                   [] OTHER        -> hash
    /\ active' = CASE c = "upsert"            -> active \cup {p}
                   [] c \in {"hide", "purge"} -> active \ {p}
                   [] OTHER                   -> active
    /\ part'   = CASE c \in Part  -> [part EXCEPT ![p][c] = v]
                   [] c = "purge" -> [part EXCEPT ![p] = Nothing]
                   [] OTHER       -> part

(* The order of the calls of _persist_layered_page.                        *)
AfterPersist(c) ==
    CASE c = "upsert"  -> "chunks"
      [] c = "chunks"  -> "vectors"
      [] c = "vectors" -> "links"
      [] c = "links"   -> "sources"
      [] c = "sources" -> "persisted"
=============================================================================
