-------------------------- MODULE CredentialsNotifier --------------------------
(***************************************************************************)
(* The list of credentials (credentials_provider.dart): loads from the     *)
(* wallet that replace the whole state, offers that add to the wallet and  *)
(* load again, and edits of the list in memory.  The wallet and the client *)
(* that accepts an offer are external.  The sample credentials, which are  *)
(* part of every list, are left out.                                       *)
(***************************************************************************)
EXTENDS Integers

CONSTANTS
  Record,       \* the credentials a wallet may hold
  RecordKindOf,           \* how the notifier reads the record of each
  MaxOffers,        \* bound on the calls of handleCredentialOffer
  MaxRefreshes,     \* bound on the calls of refreshCredentials
  MaxEdits          \* bound on the edits

RecordKinds == {"vc", "mdoc", "retired", "malformed", "unrecognized"}
ASSUME CredentialsHaveKinds == RecordKindOf \in [Record -> RecordKinds]
ASSUME BoundsAreNat == MaxOffers \in Nat /\ MaxRefreshes \in Nat /\ MaxEdits \in Nat

Offer == 1 .. MaxOffers
Constructor == 0
RefreshLoad == MaxOffers + 1 .. MaxOffers + MaxRefreshes
LoadId == {Constructor} \cup Offer \cup RefreshLoad   \* an offer's load has its number

VARIABLES
  list,             \* verifiableCredentials and mDocCredentials
  promo,            \* promotionalCredentials: not loaded, active, dismissed
  isLoading, error,
  load,             \* the calls of _loadCredentials, and what the wallet gave them
  offer,            \* the calls of handleCredentialOffer
  wallet, edits

listVars == <<list, promo, isLoading, error, load, offer, wallet, edits>>
shown == <<list, promo, isLoading, error>>

ListTypeOK ==
  /\ list \subseteq Record /\ wallet \subseteq Record
  /\ promo \in {"absent", "active", "dismissed"} /\ isLoading \in BOOLEAN
  /\ promo = "absent" <=> \A l \in LoadId : load[l].at # "ended"
  /\ error \in {"none", "retired", "demo", "offer"}
  /\ load \in [LoadId -> [at : {"idle", "reading", "read", "ended"},
                          read : SUBSET Record]]
  /\ offer \in [Offer -> [at : {"idle", "normalizing", "offering", "loading", "returned"},
                          of : SUBSET Record, stored : BOOLEAN, handled : BOOLEAN]]
  /\ edits \in 0 .. MaxEdits

ListInit ==
  /\ wallet \in SUBSET Record
  /\ list = {} /\ promo = "absent" /\ isLoading = TRUE /\ error = "none"
  /\ load = [l \in LoadId |->
       [at |-> IF l = Constructor THEN "reading" ELSE "idle", read |-> {}]]
  /\ offer = [n \in Offer |->
       [at |-> "idle", of |-> {}, stored |-> FALSE, handled |-> FALSE]]
  /\ edits = 0

\* What a load makes of the records of the wallet.
Listed(records) == {c \in records : RecordKindOf[c] \in {"vc", "mdoc"}}
HasRetired(records) == \E c \in records : RecordKindOf[c] = "retired"

-----------------------------------------------------------------------------
\* _loadCredentials up to its await; error: null leaves the error as it is.
StartLoad(l) ==
  /\ isLoading' = TRUE
  /\ load' = [load EXCEPT ![l].at = "reading"]

RefreshCredentials(l) ==
  /\ load[l].at = "idle"
  /\ StartLoad(l)
  /\ UNCHANGED <<list, promo, error, offer, wallet, edits>>

\* The wallet reads its credentials; the answer is on its way.
GetAllCredentials(l) ==
  /\ load[l].at = "reading"
  /\ load' = [load EXCEPT ![l] = [at |-> "read", read |-> wallet]]
  /\ UNCHANGED <<shown, offer, wallet, edits>>

\* handleCredentialOffer after the load it awaits.
OfferReturns(l, handled) ==
  offer' = IF l \in Offer
             THEN [offer EXCEPT ![l].at = "returned", ![l].handled = handled] ELSE offer

\* Mutant: a failed load throws to the offer that awaits it.
LoadRethrows(l) ==
  /\ load[l].at = "reading"
  /\ load' = [load EXCEPT ![l].at = "ended"]
  /\ list' = {} /\ promo' = "active" /\ isLoading' = FALSE /\ error' = "demo"
  /\ OfferReturns(l, FALSE)
  /\ UNCHANGED <<wallet, edits>>

\* The wallet fails: the samples alone are shown, and the offer goes on as if loaded.
LoadFails(l) ==
  /\ load[l].at = "reading"
  /\ load' = [load EXCEPT ![l].at = "ended"]
  /\ list' = {} /\ promo' = "active" /\ isLoading' = FALSE /\ error' = "demo"
  /\ OfferReturns(l, TRUE)
  /\ UNCHANGED <<wallet, edits>>

LoadEnds(l) ==
  /\ load[l].at = "read"
  /\ load' = [load EXCEPT ![l].at = "ended"]
  /\ list' = Listed(load[l].read) /\ promo' = "active" /\ isLoading' = FALSE
  /\ error' = IF HasRetired(load[l].read) THEN "retired" ELSE "none"
  /\ OfferReturns(l, TRUE)
  /\ UNCHANGED <<wallet, edits>>

-----------------------------------------------------------------------------
StartOffer(n, c) ==
  /\ offer[n].at = "idle" /\ \A m \in 1 .. n - 1 : offer[m].at # "idle"
  /\ offer' = [offer EXCEPT ![n].at = "normalizing", ![n].of = {c}]
  /\ UNCHANGED <<shown, load, wallet, edits>>

\* What was scanned is not an offer.
OfferRefused(n) ==
  /\ offer[n].at = "normalizing"
  /\ offer' = [offer EXCEPT ![n].at = "returned"]
  /\ UNCHANGED <<shown, load, wallet, edits>>

OfferNormalized(n) ==
  /\ offer[n].at = "normalizing"
  /\ offer' = [offer EXCEPT ![n].at = "offering"]
  /\ isLoading' = TRUE
  /\ UNCHANGED <<list, promo, error, load, wallet, edits>>

\* Rust or the issuer refuses the offer.
OfferFails(n) ==
  /\ offer[n].at \in {"normalizing", "offering"}
  /\ offer' = [offer EXCEPT ![n].at = "returned"]
  /\ isLoading' = FALSE /\ error' = "offer"
  /\ UNCHANGED <<list, promo, load, wallet, edits>>

\* Mutant: the reload is not awaited.
ReloadUnawaited(n) ==
  /\ offer[n].at = "offering"
  /\ wallet' = wallet \cup offer[n].of
  /\ offer' = [offer EXCEPT ![n].at = "returned", ![n].stored = TRUE, ![n].handled = TRUE]
  /\ StartLoad(n)
  /\ UNCHANGED <<list, promo, error, edits>>

\* The client has put the credential into the wallet, and the list is loaded again.
OfferStored(n) ==
  /\ offer[n].at = "offering"
  /\ wallet' = wallet \cup offer[n].of
  /\ offer' = [offer EXCEPT ![n].at = "loading", ![n].stored = TRUE]
  /\ StartLoad(n)
  /\ UNCHANGED <<list, promo, error, edits>>

-----------------------------------------------------------------------------
Edit == edits < MaxEdits /\ edits' = edits + 1
         /\ UNCHANGED <<isLoading, error, load, offer, wallet>>
Add(c) ==
  /\ RecordKindOf[c] \in {"vc", "mdoc"}
  /\ list' = list \cup {c} /\ UNCHANGED promo /\ Edit
RemoveVerifiableCredential(c) ==
  /\ RecordKindOf[c] = "vc"
  /\ list' = list \ {c} /\ UNCHANGED promo /\ Edit
DismissPromotionalCard ==
  /\ promo' = IF promo = "absent" THEN "absent" ELSE "dismissed"
  /\ UNCHANGED list /\ Edit

LoadStep(l) == GetAllCredentials(l) \/ LoadFails(l) \/ LoadEnds(l)
OfferStep(n) ==
  OfferRefused(n) \/ OfferNormalized(n) \/ OfferFails(n) \/ OfferStored(n)
ListNext ==
  \/ \E l \in RefreshLoad : RefreshCredentials(l)
  \/ \E l \in LoadId : LoadStep(l)
  \/ \E n \in Offer : OfferStep(n) \/ \E c \in Record : StartOffer(n, c)
  \/ \E c \in Record : Add(c) \/ RemoveVerifiableCredential(c)
  \/ DismissPromotionalCard

\* The wallet, Rust and the issuer answer.
ListFairness == /\ \A l \in LoadId : WF_listVars(LoadStep(l))
            /\ \A n \in Offer : WF_listVars(OfferStep(n))
ListSpec == ListInit /\ [][ListNext]_listVars /\ ListFairness

-----------------------------------------------------------------------------
\* When handleCredentialOffer returns after its load, the credential it put into the
\* wallet is in the list, if it is of a kind that is listed, or the error says why not,
\* whatever other loads, offers and edits go on.
OfferedIsListed ==
  [][\A n \in Offer :
       offer[n].at # "returned" /\ offer'[n].at = "returned" /\ offer'[n].handled
       => error' = "demo" \/ Listed(offer[n].of) \subseteq list']_listVars

\* An offer of which the caller hears that it was not handled ("invalid QR code") has
\* put nothing into the wallet, also when the load after it fails.
UnhandledIsNotStored ==
  \A n \in Offer : offer[n].at = "returned" /\ ~offer[n].handled => ~offer[n].stored
================================================================================
