-------------------------------- MODULE Grid --------------------------------
(***************************************************************************)
(* The dashboard's sample grid: one sprite per visible cell, pooled by the *)
(* cell's position (web/src/components/Grid/PixiGrid.tsx), and the         *)
(* textures of thumbnails, loaded on demand and dropped by an LRU order    *)
(* (textureCache.ts).  An action is a task of the browser's event loop: a  *)
(* render with its draw effect, or a thumbnail that arrives, with all that *)
(* waited for it.  Pixi's Assets, external, holds what was loaded and not  *)
(* yet unloaded.                                                           *)
(*                                                                         *)
(* What the chunks of samples put at a position, and which positions are   *)
(* in view, is SampleWindows' business; here any render may change both.   *)
(*                                                                         *)
(* Variants with a plausible bug stand before the definitions they vary.   *)
(***************************************************************************)
EXTENDS Naturals, Sequences, FiniteSets

CONSTANTS
    Samples,      \* samples; a thumbnail is named by its sample
    Positions,    \* positions in the list that the grid shows
    Lists,        \* the lists that filters and commits may put on the grid
    Views,        \* the sets of positions that may be in view
    MAX_TEXTURES, \* the cap on textures
    MaxLoads,     \* bound on the number of thumbnails that arrive
    None          \* a cell without data, a sprite with Texture.EMPTY

ASSUME NoneAssumption == None \notin Samples
ASSUME ListsAssumption == Lists \subseteq [Positions -> Samples]
ASSUME ViewsAssumption == Views \subseteq SUBSET Positions
ASSUME CapAssumption  == MAX_TEXTURES \in Nat \ {0}
ASSUME LoadsAssumption == MaxLoads \in Nat

VARIABLES
    cells,     \* cells[i]: the sample at a visible position, None if not loaded
    pool,      \* pool[i]: whose thumbnail the sprite at a position carries
    loads,     \* getTexture calls that wait; mine: their sprite is still pooled
    lruOrder,  \* thumbnails, the least recently loaded first
    resident,  \* what Assets holds
    occupants, \* history: the samples a cell had while it had its sprite
    arrived,   \* history: the thumbnails that arrived, in order
    failed     \* history: whether a thumbnail failed to load

textures == <<lruOrder, resident, arrived>>
sprites  == <<cells, pool, occupants>>
vars     == <<sprites, loads, textures, failed>>

Cells == UNION {[v -> Samples \cup {None}] : v \in SUBSET Positions}

(* A list, as far as it is in view, before or after its chunk is loaded.   *)
Seen(list, view, loaded) == [i \in view |-> IF loaded THEN list[i] ELSE None]
Loads == [index : Positions, url : Samples, mine : BOOLEAN]

TypeOK ==
    /\ cells \in Cells /\ pool \in Cells
    /\ loads \subseteq Loads
    /\ lruOrder \in Seq(Samples) /\ arrived \in Seq(Samples)
    /\ resident \subseteq Samples
    /\ DOMAIN occupants = DOMAIN cells
    /\ \A i \in DOMAIN occupants : occupants[i] \subseteq Samples
    /\ failed \in BOOLEAN

Nothing == [i \in {} |-> None]

Init ==
    /\ cells = Nothing /\ pool = Nothing /\ occupants = Nothing
    /\ loads = {}
    /\ lruOrder = <<>> /\ resident = {} /\ arrived = <<>>
    /\ failed = FALSE

-----------------------------------------------------------------------------
(* A render and its draw effect.                                           *)

(* Sprites of cells that left the view are destroyed, new cells get an     *)
(* empty one, and a sprite that stays keeps its texture whatever sample    *)
(* the cell has now.                                                       *)
Pool(new) == [i \in DOMAIN new |-> IF i \in DOMAIN pool THEN pool[i] ELSE None]

(* A sprite with data and no texture asks for one, in every render.        *)
Wanted(new) ==
    {[index |-> i, url |-> new[i], mine |-> TRUE] :
        i \in {i \in DOMAIN new : new[i] # None /\ Pool(new)[i] = None}}

(* The callbacks close over the sprite they were made for.                 *)
Orphaned(new) == {[l EXCEPT !.mine = l.mine /\ l.index \in DOMAIN new] : l \in loads}

DrawFirstOnly(new) ==
    /\ cells' = new
    /\ pool' = Pool(new)
    /\ loads' = Orphaned(new) \cup {l \in Wanted(new) : l.index \notin DOMAIN pool}
    /\ occupants' = [i \in DOMAIN new |->
           (IF i \in DOMAIN pool THEN occupants[i] ELSE {}) \cup ({new[i]} \ {None})]
    /\ UNCHANGED <<textures, failed>>

Draw(new) ==
    /\ cells' = new
    /\ pool' = Pool(new)
    /\ loads' = Orphaned(new) \cup Wanted(new)
    /\ occupants' = [i \in DOMAIN new |->
           (IF i \in DOMAIN pool THEN occupants[i] ELSE {}) \cup ({new[i]} \ {None})]
    /\ UNCHANGED <<textures, failed>>

(* A scroll, a resize, data that arrive or change, or nothing new.         *)
Render ==
    \E list \in Lists, view \in Views, loaded \in BOOLEAN :
        Draw(Seen(list, view, loaded))

-----------------------------------------------------------------------------
(* Thumbnails.                                                             *)

(* lruOrder.indexOf and splice.                                            *)
Without(s, url) ==
    IF \E i \in DOMAIN s : s[i] = url
    THEN LET i == CHOOSE i \in DOMAIN s : s[i] = url
         IN  SubSeq(s, 1, i - 1) \o SubSeq(s, i + 1, Len(s))
    ELSE s

Latest(s, n) == IF Len(s) > n THEN SubSeq(s, Len(s) - n + 1, Len(s)) ELSE s
Entries(s)   == {s[i] : i \in DOMAIN s}

touchInPlace(url) ==
    LET order == IF url \in Entries(lruOrder) THEN lruOrder ELSE Append(lruOrder, url)
    IN  /\ lruOrder' = Latest(order, MAX_TEXTURES)
        /\ resident' = (resident \cup {url}) \ (Entries(order) \ Entries(lruOrder'))

(* Moves a thumbnail to the end of the order and unloads what is too much. *)
touch(url) ==
    LET order == Append(Without(lruOrder, url), url)
    IN  /\ lruOrder' = Latest(order, MAX_TEXTURES)
        /\ resident' = (resident \cup {url}) \ (Entries(order) \ Entries(lruOrder'))

(* What the callbacks of getTexture do with the sprites: they set a texture *)
(* only while their sprite is the one in the pool, without a look at which *)
(* sample the cell has by now.                                             *)
TexturesSetByPosition(url) ==
    [i \in DOMAIN pool |-> IF \E l \in loads : l.index = i /\ l.url = url THEN url ELSE pool[i]]

TexturesSet(url) ==
    [i \in DOMAIN pool |->
        IF \E l \in loads : l.index = i /\ l.url = url /\ l.mine THEN url ELSE pool[i]]

(* A thumbnail arrives, or turns out to be there: every call that waits    *)
(* for it touches it and sets its sprite.                                  *)
Arrive(url) ==
    /\ \E l \in loads : l.url = url
    /\ Len(arrived) < MaxLoads
    /\ arrived' = Append(arrived, url)
    /\ touch(url)
    /\ pool' = TexturesSet(url)
    /\ loads' = {l \in loads : l.url # url}
    /\ UNCHANGED <<cells, occupants, failed>>

(* A request fails, once: nobody catches it, and sprites wait for a render. *)
LoadFails(url) ==
    /\ \E l \in loads : l.url = url
    /\ ~failed
    /\ loads' = {l \in loads : l.url # url}
    /\ failed' = TRUE
    /\ UNCHANGED <<sprites, textures>>

Next == Render \/ \E url \in Samples : Arrive(url) \/ LoadFails(url)

Spec == Init /\ [][Next]_vars

(* The browser answers each request or times it out.                       *)
FairSpec == Spec /\ \A url \in Samples : WF_vars(Arrive(url) \/ LoadFails(url))

-----------------------------------------------------------------------------
(* What is resident is the last MAX_TEXTURES different thumbnails that     *)
(* arrived, no more and no others (textureCache.ts): the cap holds and     *)
(* unloading hits the one that was loaded longest ago.                     *)
ResidentAreLatest ==
    LET DifferentAfter(i) == {arrived[j] : j \in i + 1 .. Len(arrived)} \ {arrived[i]}
    IN  resident = {arrived[i] : i \in {i \in DOMAIN arrived :
                       Cardinality(DifferentAfter(i)) < MAX_TEXTURES}}

(* A sprite only ever carries a thumbnail of a sample that its cell had    *)
(* since the sprite was made: callbacks for a sprite that was destroyed    *)
(* meanwhile, at the same position, do not reach its successor             *)
(* (PixiGrid.tsx:188).                                                     *)
ImagesWereHere ==
    \A i \in DOMAIN pool : pool[i] # None => pool[i] \in occupants[i]

(* A cell whose sample is known gets an image or leaves the view, unless   *)
(* a request failed, whatever renders and loads come in between.           *)
Blank(i) == i \in DOMAIN cells /\ cells[i] # None /\ pool[i] = None
BlankCellsFill ==
    \A i \in Positions : Blank(i) ~> (~Blank(i) \/ failed \/ Len(arrived) = MaxLoads)

(* web/src/hooks/useSamples.ts: "the grid, tag sidebar, and count all      *)
(* reflect the new HEAD" - so that with nothing left to load, the image in *)
(* a cell is that of the sample whose name and tags the cell shows.  The   *)
(* code does not keep this: a sprite keeps the texture it has when the     *)
(* chunks put another sample at its position.                              *)
CellsShowTheirSamples ==
    loads = {} => \A i \in DOMAIN cells :
        cells[i] # None /\ pool[i] # None => pool[i] = cells[i]
=============================================================================
