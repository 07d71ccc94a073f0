----------------------------- MODULE Wikilinks -----------------------------
(***************************************************************************)
(* Which page a [[wikilink]] names.                                        *)
(*                                                                         *)
(* Four callers answer that question, each with an index of its own:       *)
(* persist_knowledge and lint (build_title_indexes over knowledge and      *)
(* wisdom, which drops a title two pages bear), lint apply (a first-wins   *)
(* map over the same pages), synth (a first-wins map over knowledge only)  *)
(* and the graph view (a resolver of its own over every layer, source      *)
(* documents included).  Where they may name different pages, and where    *)
(* they must not, is what this module is about.                            *)
(*                                                                         *)
(* A title is what normalisation can tell of it: its word, whether that    *)
(* word ends in an `s', and whether it is spelt in normal form (case,      *)
(* width, trailing punctuation).  The pages come and go; every link is     *)
(* resolved in every state by every index.                                 *)
(***************************************************************************)
CONSTANTS
    Path,     \* the paths of documents
    Wisdom,   \* the paths of the wisdom layer
    Source,   \* the paths of the source layer; the others are knowledge
    Word,     \* the words titles are made of
    Short,    \* the words too short to lose an `s', or that end in `ss'
    Blank,    \* the words that are punctuation only
    Nil       \* no page; no key

Title == [word : Word, plural : BOOLEAN, plain : BOOLEAN]

Key == [word : Word, plural : BOOLEAN]

ASSUME WikilinkAssumption ==
    /\ Wisdom \subseteq Path /\ Source \subseteq Path
    /\ Wisdom \cap Source = {}
    /\ Nil \notin Path \cup Title \cup Key

(* The pages: the knowledge and the wisdom layer.                          *)
Vault == Path \ Source

VARIABLE title   \* the title in the active row of each path; Nil: no such page

(* The key a page's title is indexed by: case, width and punctuation go,   *)
(* the plural stays.                                                       *)
NormalizeBase(t) ==
    IF t.word \in Blank THEN Nil ELSE [word |-> t.word, plural |-> t.plural]

(* The lookup drops one trailing `s'.                                      *)
StemPlural(k) == IF k.word \in Short THEN k ELSE [k EXCEPT !.plural = FALSE]

NormalizeForMatch(t) ==
    LET base == NormalizeBase(t) IN IF base = Nil THEN Nil ELSE StemPlural(base)

(* The documents of a set that have this title, and this key.              *)
Bearing(S, t) == { p \in S : title[p] = t }

Under(S, k) == { p \in S : title[p] # Nil /\ NormalizeBase(title[p]) = k }

(* The member of a set of one; Nil for every other set.                    *)
Only(S) == IF \E p \in S : S = {p} THEN CHOOSE p \in S : TRUE ELSE Nil

(* Mutant: titles are indexed by the stem they are looked up by.           *)
StemmedIndex(exact) ==
    [k \in Key |-> { exact[t] : t \in { u \in Title :
                        exact[u] # Nil /\ NormalizeForMatch(u) = k } }]

(* build_fuzzy_index: the pages of a map from titles, by their keys.       *)
FuzzyIndex(exact) ==
    [k \in Key |-> { exact[t] : t \in { u \in Title :
                        exact[u] # Nil /\ NormalizeBase(u) = k } }]

(* Mutant: the fuzzy index is built from the exact one, and loses the      *)
(* pages of a title that was dropped.                                      *)
TitlesOfExact ==
    LET exact == [t \in Title |-> Only(Bearing(Vault, t))]
    IN [exact |-> exact, fuzzy |-> FuzzyIndex(exact)]

(* build_title_indexes: a title of two pages leaves the exact index, and   *)
(* both its pages go under its key.                                        *)
Titles == [exact |-> [t \in Title |-> Only(Bearing(Vault, t))],
           fuzzy |-> [k \in Key |-> Under(Vault, k)]]

(* The first page with the title, knowledge before wisdom; the order       *)
(* within a layer is the database's.                                       *)
FirstListed(S) ==
    CHOOSE p \in S : (\E q \in S : q \notin Wisdom) => p \notin Wisdom

(* A map the first page listed wins, and the index built from it.          *)
FirstWins(S) ==
    LET exact == [t \in Title |-> IF Bearing(S, t) = {} THEN Nil
                                  ELSE FirstListed(Bearing(S, t))]
    IN [exact |-> exact, fuzzy |-> FuzzyIndex(exact)]

(* Lint apply's map is of both layers.                                     *)
ApplyMap == FirstWins(Vault)

(* Synth's is of knowledge only, the batch's own pages included.           *)
SynthMap == FirstWins(Vault \ Wisdom)

(* Mutant: the key is looked up before the exact title.                    *)
FuzzyFirst(link, index) ==
    LET key  == NormalizeForMatch(link)
        near == IF key = Nil THEN Nil ELSE Only(index.fuzzy[key])
    IN IF near # Nil THEN near ELSE index.exact[link]

(* resolve_links: the exact title, else the only page under the key, else  *)
(* nothing.                                                                *)
Resolve(link, index) ==
    IF index.exact[link] # Nil THEN index.exact[link]
    ELSE LET key == NormalizeForMatch(link)
         IN IF key = Nil THEN Nil ELSE Only(index.fuzzy[key])

(* The graph view: documents of every layer; two with the exact title end  *)
(* the search.                                                             *)
GraphResolve(link) ==
    IF Bearing(Path, link) # {} THEN Only(Bearing(Path, link))
    ELSE LET key == NormalizeForMatch(link)
         IN IF key = Nil THEN Nil ELSE Only(Under(Path, key))

LinkInit == title = [p \in Path |-> Nil]

(* A page is persisted under a title: a new one, or a new title for an old *)
(* path.                                                                   *)
Persist(p, t) == title' = [title EXCEPT ![p] = t]

(* A page is deactivated or deleted.                                       *)
RemovePage(p) ==
    /\ title[p] # Nil
    /\ title' = [title EXCEPT ![p] = Nil]

LinkNext == \E p \in Path : RemovePage(p) \/ \E t \in Title : Persist(p, t)

LinkSpec == LinkInit /\ [][LinkNext]_title

-----------------------------------------------------------------------------
LinkTypeOK == title \in [Path -> Title \cup {Nil}]

(* Two pages bear the link exactly.                                        *)
Collides(link) == \E p, q \in Bearing(Vault, link) : p # q

(* A link two pages bear exactly, whose lookup would drop an `s': the      *)
(* collision empties its exact entry, and the key then found is another    *)
(* title's (links.py:131-149 says the pair is refused).  A plural that one *)
(* page bears does not slip: its exact entry stands.                       *)
Slips(link) ==
    /\ Collides(link)
    /\ NormalizeForMatch(link) # NormalizeBase(link)

(* No wrong merge (links.py:329-337): a link that resolves names the one   *)
(* page that bears its title, or, when no page does, the one page under    *)
(* its key.                                                                *)
NoWrongMerge ==
    \A link \in Title :
      LET p == Resolve(link, Titles)
      IN p # Nil /\ ~Slips(link) =>
           \/ Bearing(Vault, link) = {p}
           \/ /\ Bearing(Vault, link) = {}
              /\ Under(Vault, NormalizeForMatch(link)) = {p}

(* A source document stands between a link and its page in the graph view: *)
(* it bears the link, or shares the key of a link that no page bears.      *)
Shadowed(link) ==
    \/ Bearing(Source, link) # {}
    \/ /\ Bearing(Vault, link) = {}
       /\ NormalizeForMatch(link) # Nil
       /\ Under(Source, NormalizeForMatch(link)) # {}

(* The stored edges and the graph view, two resolvers written twice over   *)
(* different universes (page_index.py:176-183, api_graph.py:433,455-485):  *)
(* a page the view names is the page of the stored edge, and the view      *)
(* names the page of a stored edge unless, and only unless, a source       *)
(* document shadows it.                                                    *)
GraphAgrees ==
    \A link \in Title :
      LET page == Resolve(link, Titles)
          node == GraphResolve(link)
      IN /\ node \in Vault => node = page
         /\ page # Nil /\ ~Slips(link) => (node = page <=> ~Shadowed(link))

(* A first-wins index may resolve a link the careful index refuses, but    *)
(* where the careful one names a page lint apply names the same, and so    *)
(* does synth where that page is knowledge: re-persisting a page by        *)
(* another route never moves such an edge from one page to another.        *)
BatchNeverRetargets ==
    \A link \in Title :
      LET p == Resolve(link, Titles)
      IN p # Nil /\ ~Slips(link) =>
           /\ Resolve(link, ApplyMap) = p
           /\ p \notin Wisdom => Resolve(link, SynthMap) = p

(* What links.py:131-149 promises of a title two pages bear: the link is   *)
(* left broken.                                                            *)
CollisionRefused ==
    \A link \in Title : Collides(link) => Resolve(link, Titles) = Nil

(* What api_graph.py:409-411 says of the view: it resolves as the link     *)
(* store does.                                                             *)
GraphMatchesStore ==
    \A link \in Title :
      ~Slips(link) => GraphResolve(link) = Resolve(link, Titles)

(* What docs/getting-started.md:425 says of both layers, asked of a page   *)
(* that synth writes: its link to a wisdom page is the stored edge.        *)
SynthReachesWisdom ==
    \A link \in Title :
      LET p == Resolve(link, Titles)
      IN p \in Wisdom /\ ~Slips(link) => Resolve(link, SynthMap) = p
=============================================================================
