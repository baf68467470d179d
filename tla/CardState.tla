------------------------------- MODULE CardState -------------------------------
(***************************************************************************)
(* The wallet's card list (CardStateNotifier of card_state_provider.dart)  *)
(* over the credential store: loaded once when the notifier is created,    *)
(* from the native channel and from WalletCredentialStore, then changed by *)
(* the document view (drag and drop of groups) and the expired-passes      *)
(* views (delete, unhide).  The list itself is never restored: saveCards   *)
(* writes a key that nothing reads.                                        *)
(*                                                                         *)
(* deleteCard and toggleCardExpired know a card by its title, reorderGroup *)
(* a group by its index in the list.                                       *)
(***************************************************************************)
EXTENDS WalletCredentialStore

CONSTANTS
  NativeCard,  \* ids of the credentials the native channel returns
  Expired,     \* those of them that are past their expiry date
  TitleOf,     \* the title _map...ToCardData gives the card of an id
  IssuerOf,
  Loader       \* the caller of getAll; a delete is called by its own id

Card == [id : Id \cup NativeCard, source : {"native", "store"}, expired : BOOLEAN]

ASSUME CallersAreIdsAndLoader == Operation = Id \cup {Loader} /\ Loader \notin Id
ASSUME ExpiredAreNative == Expired \subseteq NativeCard
ASSUME CardsAreFinite == IsFiniteSet(Id) /\ IsFiniteSet(NativeCard)

VARIABLES
  groups,      \* the notifier's state
  loading,     \* how far loadCards is
  found        \* the cards it has from the native channel

listVars == <<groups, loading, found>>
vars == <<storeVars, listVars>>

TypeOK ==
  /\ StoreTypeOK
  /\ groups \in Seq([title : {IssuerOf[i] : i \in Id \cup NativeCard},
                     cards : Seq(Card)])
  /\ loading \in {"native", "store", "loaded"}
  /\ found \in Seq(Card)

\* A wallet that was used before: every credential is stored.
Init ==
  /\ body = Id
  /\ index = SetToSeq(Id)
  /\ op = [o \in Operation |-> "returned"]
  /\ method = [o \in Operation |-> "none"]
  /\ id = [o \in Operation |-> NoId]
  /\ todo = [o \in Operation |-> <<>>]
  /\ result = [o \in Operation |-> <<>>]
  /\ kept = Id
  /\ cutOff = {}
  /\ expected = [o \in Operation |-> {}]
  /\ groups = <<>>
  /\ loading = "native"
  /\ found = <<>>

Cards == UNION {ToSet(groups[g].cards) : g \in DOMAIN groups}
Titles(cards) == {TitleOf[c.id] : c \in cards}
FromStore(cards) == {c.id : c \in {d \in cards : d.source = "store"}}

\* The elements of s that are in S, in their order (Dart's where and removeWhere).
Where(s, S) ==
  LET taken[n \in 0 .. Len(s)] ==
        IF n = 0 THEN <<>>
        ELSE IF s[n] \in S THEN Append(taken[n - 1], s[n])
        ELSE taken[n - 1]
  IN  taken[Len(s)]

\* What the views show: expiredCardsProvider and activeCardGroupsProvider, the
\* latter as the positions in groups of the groups it keeps.
ExpiredCards == {c \in Cards : c.expired}
Active(g) == Where(groups[g].cards, {c \in Cards : ~c.expired})
ActiveGroups ==
  Where([g \in DOMAIN groups |-> g], {g \in DOMAIN groups : Active(g) # <<>>})

-----------------------------------------------------------------------------
\* loadCards, called by the constructor.  The native channel answers, or throws
\* and contributes nothing; getAll may throw too, and what it then returned is
\* empty.

NativeCards ==
  LET ids == SetToSeq(NativeCard)
  IN  [n \in DOMAIN ids |->
         [id |-> ids[n], source |-> "native", expired |-> ids[n] \in Expired]]

NativeLoaded ==
  /\ loading = "native"
  /\ found' \in {NativeCards, <<>>}
  /\ loading' = "store"
  /\ BeginGetAll(Loader)
  /\ UNCHANGED groups

\* Mutant: stored credentials are added without looking for their id.
AllStoredCards(ids) ==
  [n \in DOMAIN ids |-> [id |-> ids[n], source |-> "store", expired |-> FALSE]]

\* A stored credential is left out when the native channel has its id, and is
\* never expired to begin with.
StoredCards(ids) ==
  LET new == Where(ids, Id \ {found[n].id : n \in DOMAIN found})
  IN  [n \in DOMAIN new |->
         [id |-> new[n], source |-> "store", expired |-> FALSE]]

\* One group per issuer, in the order the issuers are first met.
GroupByIssuer(cards) ==
  LET Issuer(n) == IssuerOf[cards[n].id]
      firsts == Where([n \in DOMAIN cards |-> n],
                  {n \in DOMAIN cards : \A m \in 1 .. n - 1 : Issuer(m) # Issuer(n)})
  IN  [g \in DOMAIN firsts |->
         [title |-> Issuer(firsts[g]),
          cards |-> Where(cards, {c \in ToSet(cards) : IssuerOf[c.id] = Issuer(firsts[g])})]]

StoreLoaded ==
  /\ loading = "store"
  /\ ~Running(Loader)
  /\ groups' = GroupByIssuer(found \o StoredCards(result[Loader]))
  /\ loading' = "loaded"
  /\ found' = <<>>
  /\ UNCHANGED storeVars

-----------------------------------------------------------------------------
\* The expired-passes views: one card (the details view), or every expired
\* card with a selected title (the edit mode).  deleteCard is called for each
\* and awaited by nobody, so the deletes of one selection start together.

Selection == {{c} : c \in ExpiredCards} \cup
             {{c \in ExpiredCards : TitleOf[c.id] \in titles} :
                titles \in SUBSET Titles(ExpiredCards)}

\* Mutant: of cards with the same title only the first one leaves the list.
RemoveFirstTitled(titles) ==
  [g \in DOMAIN groups |->
     [groups[g] EXCEPT !.cards =
        LET n == SelectInSeq(@, LAMBDA c : TitleOf[c.id] \in titles)
        IN  IF n = 0 THEN @ ELSE RemoveAt(@, n)]]

RemoveTitled(titles) ==
  [g \in DOMAIN groups |->
     [groups[g] EXCEPT !.cards = Where(@, {c \in Cards : TitleOf[c.id] \notin titles})]]

Delete(cards) ==
  LET deleted == FromStore(cards) IN
  /\ groups' = RemoveTitled(Titles(cards))
  /\ op' = [o \in Operation |-> IF o \in deleted THEN "delete body" ELSE op[o]]
  /\ method' = [o \in Operation |-> IF o \in deleted THEN "delete" ELSE method[o]]
  /\ id' = [o \in Operation |-> IF o \in deleted THEN o ELSE id[o]]
  /\ kept' = kept \ deleted
  /\ expected' = [o \in Operation |-> expected[o] \ deleted]
  /\ UNCHANGED <<storageVars, todo, result, cutOff, loading, found>>

\* toggleCardExpired is called for each card and toggles every card of its
\* title: two selected cards of one title undo each other.
Unhide(cards) ==
  LET Times(c) == Cardinality({d \in cards : TitleOf[d.id] = TitleOf[c.id]})
      Toggled(c) == [c EXCEPT !.expired = (@ # (Times(c) % 2 = 1))]
      ToggledAll(cs) == [n \in DOMAIN cs |-> Toggled(cs[n])]
  IN  /\ groups' = [g \in DOMAIN groups |->
                      [groups[g] EXCEPT !.cards = ToggledAll(@)]]
      /\ UNCHANGED <<storeVars, loading, found>>

\* The document view: the first card of a shown group is dropped on another
\* shown group.  The indices are those of the shown groups, and reorderGroup
\* applies them to all groups.
ReorderGroup(card, target) ==
  LET source == SelectInSeq(ActiveGroups,
                  LAMBDA g : TitleOf[Active(g)[1].id] = TitleOf[card.id])
      destination == IF source < target THEN target - 1 ELSE target
  IN  /\ source \notin {0, target}
      /\ groups' = InsertAt(RemoveAt(groups, source), destination, groups[source])
      /\ UNCHANGED <<storeVars, loading, found>>

-----------------------------------------------------------------------------
\* The process is killed and started again: the storage is what it was, and
\* the list is loaded anew.
Restart ==
  /\ Stop({o \in Operation : Running(o)})
  /\ groups' = <<>>
  /\ loading' = "native"
  /\ found' = <<>>

StorageStep ==
  /\ \E o \in Operation : StorageCall(o) \/ StorageThrows(o)
  /\ UNCHANGED listVars

Next ==
  \/ NativeLoaded
  \/ StoreLoaded
  \/ \E cards \in Selection : Delete(cards) \/ Unhide(cards)
  \/ \E n, target \in DOMAIN ActiveGroups :
       ReorderGroup(Active(ActiveGroups[n])[1], target)
  \/ StorageStep
  \/ Restart

Spec == Init /\ [][Next]_vars

-----------------------------------------------------------------------------
\* However loads, drops and deletes follow each other, a credential is on the
\* list once, in the one group of its issuer.
EachCardOnce ==
  /\ TypeOK
  /\ \A g, h \in DOMAIN groups :
       /\ groups[g].title = groups[h].title => g = h
       /\ \A i \in DOMAIN groups[g].cards, j \in DOMAIN groups[h].cards :
            groups[g].cards[i].id = groups[h].cards[j].id => g = h /\ i = j
  /\ \A g \in DOMAIN groups : \A c \in ToSet(groups[g].cards) :
        IssuerOf[c.id] = groups[g].title

\* The list shows no received credential whose body the store has given up,
\* also while the deletes of a selection are still running.
ShownIsStored == FromStore(Cards) \subseteq body

\* The list and the store agree: that, and KeptIsStored of the store, here with
\* the deletes of one selection overwriting each other's index.  Failures and
\* restarts lose no credential the user did not delete.
ListMatchesStore == ShownIsStored /\ KeptIsStored

\* "Also remove from WalletCredentialStore if issued via OID4VCI."
\* (deleteCard): the card of a received credential that a deletion takes from
\* the list is deleted from the store as well.
RemovedCardsAreDeleted ==
  [][loading' = "loaded" =>
       FromStore(Cards) \ FromStore(Cards)' \subseteq Id \ kept']_vars
=============================================================================
