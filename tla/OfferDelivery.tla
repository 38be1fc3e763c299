---------------------------- MODULE OfferDelivery ----------------------------
(***************************************************************************)
(* The tile offers of the userscript (userscript/src/telemetry.ts with     *)
(* tile-offer-acknowledgements.ts) to ONE server: what is observed on the  *)
(* page is remembered, held until it is settled, queued, and offered in    *)
(* flushes that run one at a time.  A flush awaits the account, the        *)
(* server's answer and the uploads; in between the manifest changes, the   *)
(* connection is replaced, sharing is switched and tiles are replayed.     *)
(*                                                                         *)
(* A connection is its owner, the identity of its lifetime.  A new status, *)
(* token or season makes a new one.  A delivery is the number in its       *)
(* UUIDv7: ids are in the order of observation, but what is hashed later   *)
(* arrives later.  Bytes are left out, and the budgets that count them.    *)
(***************************************************************************)
EXTENDS Integers, SequencesExt

CONSTANTS
    Tile,
    MaxDeliveries,  \* bound: tiles observed
    TileOf,         \* the tile of each delivery
    MaxRecent,      \* MAX_RECENT_TILES
    MaxOffers,      \* MAX_TILE_OFFERS: offers of one flush
    MaxHeld,        \* MAX_UNSETTLED_OFFERS_PER_SERVER
    MaxOwners,      \* bound: lifetimes of the connection
    MaxManifests,   \* bound: manifests that the server makes
    MaxExpiries     \* bound: receipts that expire while their flush goes on

Delivery == 1 .. MaxDeliveries
NoOwner == 0
Owner == NoOwner .. MaxOwners

ASSUME OfferDeliveryAssumption ==
    /\ MaxDeliveries \in Nat /\ TileOf \in [Delivery -> Tile]
    /\ MaxRecent \in Nat \ {0} /\ MaxOffers \in Nat \ {0} /\ MaxHeld \in Nat \ {0}
    /\ MaxOwners \in Nat \ {0} /\ MaxManifests \in Nat \ {0} /\ MaxExpiries \in Nat

VARIABLES
    share,     \* state.shareTiles
    server,    \* the connection: whose, and whether it is connected
    served,    \* the server's manifest: the tiles it covers, and its revision
    covers,    \* coverage: the manifest that the userscript has, and from whom
    account,   \* what is known of the wplace identity
    observed,  \* deliveries made so far
    recent,    \* recentTiles
    outbox,    \* what is held, queued and answered, and when it is flushed
    flush,     \* flushOffers, while it runs
    expiries

offerVars == <<share, server, served, covers, account, observed, recent, outbox, flush, expiries>>

\* A receipt that is "retryable" decides nothing that no receipt would not.
\* current: in flight, started under the coverage generation of now; rejected,
\* it had been in flight until then.  asOf: the manifest it was rejected by.
Receipt == [state : {"none", "in-flight", "acknowledged", "rejected"}, live : BOOLEAN,
            current : BOOLEAN, asOf : 0 .. MaxManifests]
NoReceipt == [state |-> "none", live |-> FALSE, current |-> FALSE, asOf |-> 0]
Live(state, asOf, current) == [state |-> state, live |-> TRUE, current |-> current, asOf |-> asOf]

EmptyOutbox ==
    [held |-> <<>>, heldFor |-> NoOwner,      \* unsettledOffers
     attempted |-> {},                       \* attemptedTileOffers
     queue |-> <<>>, queueFor |-> NoOwner,    \* queued
     timer |-> "none", paced |-> FALSE,      \* flushTimers and delayedFlushes; offerRetryDelays
     receipts |-> [d \in Delivery |-> NoReceipt], receiptsFor |-> NoOwner]

NoFlush == [at |-> "idle", http |-> FALSE, owner |-> NoOwner, todo |-> <<>>, verdict |-> <<>>,
            asOf |-> 0, retry |-> FALSE, now |-> FALSE]

Listed(s) == ToSet(s) \subseteq Delivery /\ Cardinality(ToSet(s)) = Len(s)

OffersTypeOK ==
    /\ share \in BOOLEAN
    /\ server \in [owner : Owner, up : BOOLEAN]
    /\ served \in [tiles : SUBSET Tile, revision : 1 .. MaxManifests]
    /\ covers \in [owner : Owner, tiles : SUBSET Tile, revision : 0 .. MaxManifests]
    /\ account \in {"known", "unknown", "unavailable"}
    /\ observed \subseteq Delivery
    /\ Listed(recent) /\ ToSet(recent) \subseteq observed /\ Len(recent) <= MaxRecent
    /\ Listed(outbox.held) /\ Listed(outbox.queue)
    /\ outbox.heldFor \in Owner /\ (outbox.heldFor = NoOwner) = (outbox.held = <<>>)
    /\ outbox.queueFor \in Owner /\ (outbox.queueFor = NoOwner) = (outbox.queue = <<>>)
    /\ outbox.attempted \subseteq observed
    /\ outbox.timer \in {"none", "soon", "late"} /\ outbox.paced \in BOOLEAN
    /\ outbox.receipts \in [Delivery -> Receipt] /\ outbox.receiptsFor \in Owner
    /\ flush.at \in {"idle", "account", "cache", "sent", "answered", "upload", "puts"}
    /\ Listed(flush.todo) /\ Len(flush.todo) <= MaxOffers
    /\ expiries \in 0 .. MaxExpiries

\* Connected and sharing, before the first manifest, with some of the bounds
\* left; what was observed before the page was loaded anew is forgotten.
OffersInit ==
    /\ share = TRUE
    /\ server \in [owner : 1 .. MaxOwners, up : {TRUE}]
    /\ served \in [tiles : SUBSET Tile, revision : 1 .. MaxManifests]
    /\ covers = [owner |-> NoOwner, tiles |-> {}, revision |-> 0]
    /\ account \in {"known", "unknown"}
    /\ observed \in SUBSET Delivery /\ recent = <<>>
    /\ outbox = EmptyOutbox /\ flush = NoFlush /\ expiries \in 0 .. MaxExpiries

\* isCurrentServerConnection.
Current(owner) == server.up /\ owner = server.owner
\* coverageFor.
Covered == IF Current(covers.owner) THEN covers.tiles ELSE {}

\* Of the deliveries in a list, those in a set; of all, those of some tiles.
Among(s, S) == FoldLeft(LAMBDA r, d : IF d \in S THEN Append(r, d) ELSE r, <<>>, s)
Of(tiles) == {d \in Delivery : TileOf[d] \in tiles}
Index(s, d) == CHOOSE i \in DOMAIN s : s[i] = d
Without(s, d) == IF d \in ToSet(s) THEN RemoveAt(s, Index(s, d)) ELSE s
\* A map that becomes empty is deleted, and its owner with it.
Owned(x) == [x EXCEPT !.heldFor = IF x.held = <<>> THEN NoOwner ELSE @,
                      !.queueFor = IF x.queue = <<>> THEN NoOwner ELSE @]

-----------------------------------------------------------------------------
(* What is held.                                                           *)

\* deleteUnsettledOffer.
Delete(x, d) ==
    Owned([x EXCEPT !.attempted = @ \ {d}, !.held = Without(@, d),
                    !.queue = IF d \in ToSet(x.held) THEN Without(@, d) ELSE @])

\* clearUnsettledServer, and clearServerTileOfferDelivery.
ClearHeld(x) == FoldLeft(Delete, x, x.held)
Clear(x) == Owned([ClearHeld(x) EXCEPT !.timer = "none", !.queue = <<>>, !.paced = FALSE])

\* Mutant: the oldest go, attempted or not.
TrimOldest(x) ==
    FoldLeft(Delete, x, SubSeq(x.held, 1, Len(x.held) - MaxHeld))
\* trimUnsettledOffers: the oldest of those that were attempted go.
Trim(x) ==
    LET victims == Among(x.held, x.attempted)
    IN  FoldLeft(Delete, x, SubSeq(victims, 1, Min({Len(victims), Len(x.held) - MaxHeld})))

\* retainUnsettledOffer.
Retain(x, d) ==
    LET mine == IF x.heldFor \in {NoOwner, server.owner} THEN x ELSE ClearHeld(x)
    IN  [mine EXCEPT !.heldFor = server.owner,
                     !.held = IF d \in ToSet(@) THEN @ ELSE Append(@, d)]

\* rotateUnsettledOffer.
Rotate(x, d) ==
    IF d \in ToSet(x.held) THEN [x EXCEPT !.held = Append(Without(@, d), d)] ELSE x

\* retryUnsettledOffer.
RetryUnsettled(x, d) ==
    IF ~share \/ ~Current(flush.owner) THEN x
    ELSE IF d \notin ToSet(recent) THEN Delete(x, d)
    ELSE IF d \in ToSet(x.held) THEN Rotate(x, d)
    ELSE Retain(x, d)

-----------------------------------------------------------------------------
(* What is queued, and the receipts.                                       *)

Enqueue(x, deliveries) ==
    LET before == IF Current(x.queueFor) THEN x.queue ELSE <<>>
        next == before \o Among(deliveries, Delivery \ ToSet(before))
    IN  IF next = <<>> THEN x ELSE [x EXCEPT !.queue = next, !.queueFor = server.owner]

\* scheduleFlush, while no flush runs: "soon" is OFFER_DELAY_MS.
Schedule(x, delay) ==
    [x EXCEPT !.timer = IF @ = "none" \/ delay = "soon" THEN delay ELSE @]

\* #server: another owner's receipts are forgotten.
OwnReceipts(x) ==
    IF x.receiptsFor = server.owner THEN x
    ELSE [x EXCEPT !.receiptsFor = server.owner, !.receipts = [d \in Delivery |-> NoReceipt]]
\* #settlementServer, #remember: an answer for another owner is dropped.
Write(x, d, receipt) ==
    IF x.receiptsFor = flush.owner THEN [x EXCEPT !.receipts[d] = receipt] ELSE x

\* Mutant: whatever is in flight may be rejected.
SupersededNever(x, d) == FALSE
\* rejected(): a receipt that is in flight since other coverage is no rejection.
Superseded(x, d) == x.receipts[d].state = "in-flight" /\ ~x.receipts[d].current
Stands(x, d) == x.receiptsFor = flush.owner /\ ~Superseded(x, d)
Reject(x, d, asOf) ==
    Write(x, d, IF Superseded(x, d) THEN NoReceipt
                ELSE Live("rejected", asOf, x.receipts[d].state = "in-flight"))

\* One server of shareObservedTile, by the manifest that covers these tiles.
Offer(x, d, tiles) ==
    LET mine == OwnReceipts(x)
        kept == Trim(Retain([mine EXCEPT !.receipts[d] = NoReceipt], d))
        next == Enqueue(kept, <<d>>)
    IN  IF TileOf[d] \notin tiles THEN x
        ELSE IF mine.receipts[d].live THEN mine
        ELSE IF flush.at # "idle" THEN next
        ELSE Schedule(next, IF account = "unknown" /\ next.paced THEN "late" ELSE "soon")

\* replayRecent.
Replay(x, tiles) ==
    LET mine == IF Current(x.heldFor) THEN x.held ELSE <<>>
    IN  FoldLeft(LAMBDA y, d : Offer(y, d, tiles), x,
                 recent \o Among(mine, Delivery \ ToSet(recent)))

-----------------------------------------------------------------------------
(* The page, the settings, the connection, the manifest.                   *)

\* rememberTile: of several of one tile the first goes, or else of all.
Remembered(d) ==
    LET next == Append(recent, d)
        twice == {e \in ToSet(next) : \E f \in ToSet(next) \ {e} : TileOf[f] = TileOf[e]}
    IN  IF Len(next) <= MaxRecent THEN next
        ELSE Without(next, Min(IF twice = {} THEN ToSet(next) ELSE twice))

\* observeTile, after the hash: what was wanted when the page fetched it, and
\* everything is until the coverage is known, may come at any later time.
Observe(d) ==
    /\ d \notin observed
    /\ observed' = observed \cup {d} /\ recent' = Remembered(d)
    /\ outbox' = IF share THEN Offer(outbox, d, Covered) ELSE outbox
    /\ UNCHANGED <<share, server, served, covers, account, flush, expiries>>

\* onStateChange of installTelemetry, when the setting is, or becomes, on.
Replayed(on) == IF on THEN Replay(outbox, Covered) ELSE Clear(outbox)

StateChange ==
    /\ outbox' = Replayed(share)
    /\ UNCHANGED <<share, server, served, covers, account, observed, recent, flush, expiries>>

SetShare ==
    /\ share' = ~share /\ outbox' = Replayed(share')
    /\ UNCHANGED <<server, served, covers, account, observed, recent, flush, expiries>>

\* Another status, or the server is removed, which clears its delivery.
Drop ==
    /\ server.up
    /\ server' = [server EXCEPT !.up = FALSE]
    /\ \/ UNCHANGED outbox
       \/ outbox' = Clear(outbox)
    /\ UNCHANGED <<share, served, covers, account, observed, recent, flush, expiries>>

\* A new lifetime: connected again, or replaced.  Its coverage is not known.
Connect ==
    /\ server.owner < MaxOwners
    /\ server' = [owner |-> server.owner + 1, up |-> TRUE]
    /\ UNCHANGED <<share, served, covers, account, observed, recent, outbox, flush, expiries>>

ChangeManifest ==
    /\ served.revision < MaxManifests
    /\ \E tiles \in SUBSET Tile : served' = [tiles |-> tiles, revision |-> served.revision + 1]
    /\ UNCHANGED <<share, server, covers, account, observed, recent, outbox, flush, expiries>>

\* invalidateRejections.
Invalidated(x) ==
    IF x.receiptsFor # server.owner THEN x
    ELSE [x EXCEPT !.receipts = [d \in Delivery |->
            IF @[d].state = "rejected" THEN NoReceipt ELSE [@[d] EXCEPT !.current = FALSE]]]

\* rememberContents' cut: what is held or queued for somebody else, or for a
\* tile that is not covered, goes.
Cut(x) ==
    LET gone == {d \in ToSet(x.held) : x.heldFor # server.owner \/ TileOf[d] \notin served.tiles}
        y == FoldLeft(Delete, x, Among(x.held, gone))
    IN  Owned([y EXCEPT !.queue = IF ~Current(y.queueFor) THEN <<>>
                                  ELSE Among(@, Of(served.tiles))])

\* rememberContents.
RememberContents ==
    /\ server.up
    /\ LET changed == covers.owner # server.owner \/ covers.revision # served.revision
           cut == Cut(outbox)
           fresh == IF changed THEN Invalidated(cut) ELSE cut
       IN  /\ covers' = [owner |-> server.owner, tiles |-> served.tiles, revision |-> served.revision]
           /\ outbox' = IF share THEN Replay(fresh, served.tiles) ELSE fresh
    /\ UNCHANGED <<share, server, served, account, observed, recent, flush, expiries>>

\* loadAccount, whoever calls it: an identity that was refused is unknown again
\* while it is asked for.
LoadAccount ==
    /\ account' \in {"known", "unavailable"} \cup (IF account = "known" THEN {} ELSE {"unknown"})
    /\ UNCHANGED <<share, server, served, covers, observed, recent, outbox, flush, expiries>>

\* A receipt passes its expiresAt: from then on it decides nothing, except that
\* one in flight, until it is looked at, still knows its coverage generation.
Expire(d) ==
    /\ outbox.receipts[d].live
    /\ outbox' = [outbox EXCEPT !.receipts[d] =
         IF @.state = "in-flight" THEN [@ EXCEPT !.live = FALSE] ELSE NoReceipt]
    /\ IF outbox.receipts[d].state = "in-flight" /\ flush.at # "idle"
       THEN expiries < MaxExpiries /\ expiries' = expiries + 1
       ELSE UNCHANGED expiries
    /\ UNCHANGED <<share, server, served, covers, account, observed, recent, flush>>

-----------------------------------------------------------------------------
(* flushOffers.                                                            *)

\* Mutant: the newest of each tile.
SelectedNewest(queue) ==
    FoldRight(LAMBDA d, s : IF Len(s) < MaxOffers /\ \A e \in ToSet(s) : TileOf[e] # TileOf[d]
                            THEN Append(s, d) ELSE s, queue, <<>>)
\* The first of each tile, no more than one offer holds.
Selected(queue) ==
    FoldLeft(LAMBDA s, d : IF Len(s) < MaxOffers /\ \A e \in ToSet(s) : TileOf[e] # TileOf[d]
                           THEN Append(s, d) ELSE s, <<>>, queue)

Started(x, todo) ==
    [x EXCEPT !.receipts = [d \in Delivery |->
        IF d \in ToSet(todo) THEN Live("in-flight", 0, TRUE) ELSE @[d]]]

FlushBegins ==
    /\ outbox.timer # "none" /\ flush.at = "idle"
    /\ LET taken == Owned([outbox EXCEPT !.timer = "none", !.queue = <<>>])
           todo == Selected(outbox.queue)
       IN  IF ~share THEN outbox' = Clear(outbox) /\ UNCHANGED flush
           ELSE IF outbox.queue = <<>> \/ ~Current(outbox.queueFor)
           THEN outbox' = taken /\ UNCHANGED flush
           ELSE /\ outbox' = Started(OwnReceipts(taken), todo)
                /\ flush' = [NoFlush EXCEPT
                     !.at = "account", !.owner = server.owner, !.todo = todo,
                     !.now = \E d \in ToSet(outbox.queue) \ ToSet(todo) : d \notin outbox.attempted]
    /\ UNCHANGED <<share, server, served, covers, account, observed, recent, expiries>>

\* finally: what is held and covered is queued again, and flushed soon, or
\* after OFFER_RETRY_MIN_MS when it failed.
Ended(x, retry, now) ==
    LET y == IF share /\ Current(x.heldFor)
             THEN Enqueue(x, Among(x.held, Of(Covered))) ELSE x
        late == retry /\ ~now
    IN  IF y.queue = <<>> THEN y
        ELSE Schedule([y EXCEPT !.paced = late], IF late THEN "late" ELSE "soon")
End(x, retry, now) == outbox' = Ended(x, retry, now) /\ flush' = NoFlush

offerRest == <<share, server, served, covers, account, observed, recent, expiries>>

\* Not known yet, or the connection was replaced: they keep, in another order.
PutOff == FoldLeft(LAMBDA x, d : Rotate(Write(x, d, NoReceipt), d), outbox, flush.todo)

AccountLoaded ==
    /\ flush.at = "account"
    /\ IF ~share \/ account = "unavailable" THEN End(Clear(outbox), FALSE, flush.now)
       ELSE IF account = "unknown" \/ ~Current(flush.owner) THEN End(PutOff, TRUE, FALSE)
       ELSE /\ outbox' = Trim([outbox EXCEPT !.attempted = @ \cup ToSet(flush.todo)])
            /\ \E http \in BOOLEAN :
                 flush' = [flush EXCEPT !.http = http, !.at = IF http THEN "cache" ELSE "sent"]
    /\ UNCHANGED offerRest

Acknowledge(x, d) == Delete(Write(x, d, Live("acknowledged", 0, FALSE)), d)

\* The live cache acknowledges some of them, or none.
CacheAnswers ==
    /\ flush.at = "cache"
    /\ IF ~share THEN End(Clear(outbox), FALSE, flush.now)
       ELSE IF ~Current(flush.owner) THEN End(outbox, FALSE, flush.now)
       ELSE \E cached \in SUBSET ToSet(flush.todo) :
              LET x == FoldLeft(Acknowledge, outbox, Among(flush.todo, cached))
                  todo == Among(flush.todo, Delivery \ cached)
              IN  IF todo = <<>> THEN End(x, FALSE, flush.now)
                  ELSE outbox' = x /\ flush' = [flush EXCEPT !.at = "sent", !.todo = todo]
    /\ UNCHANGED offerRest

\* ingest.ts: what no template covers is rejected, of the rest some are wanted.
ServerAnswers ==
    /\ flush.at = "sent"
    /\ \E verdict \in [ToSet(flush.todo) -> {"acknowledged", "wanted", "rejected"}] :
         /\ \A d \in ToSet(flush.todo) : (verdict[d] = "rejected") = (TileOf[d] \notin served.tiles)
         /\ flush' = [flush EXCEPT !.at = "answered", !.verdict = verdict, !.asOf = served.revision]
    /\ UNCHANGED outbox /\ UNCHANGED offerRest

\* No attempt was answered, or not for every offer.
GiveBack(x, d) == RetryUnsettled(Write(x, d, NoReceipt), d)
RequestFails ==
    /\ flush.at \in {"sent", "answered"}
    /\ End(FoldLeft(GiveBack, outbox, flush.todo), TRUE, flush.now)
    /\ UNCHANGED offerRest

\* Protocol 2 only: another error than "unavailable".
Refused ==
    /\ flush.at = "sent" /\ ~flush.http
    /\ End(FoldLeft(Delete, outbox, flush.todo), FALSE, flush.now)
    /\ UNCHANGED offerRest

\* What a settlement changes: the outbox, retryNeeded and retryImmediately.
Failed(s, d) == [s EXCEPT !.x = GiveBack(@, d), !.retry = TRUE]
Settled(s, d) ==
    IF flush.verdict[d] = "acknowledged" THEN [s EXCEPT !.x = Acknowledge(@, d)]
    ELSE IF Stands(s.x, d) THEN [s EXCEPT !.x = Delete(Reject(@, d, flush.asOf), d)]
    ELSE LET x == Reject(s.x, d, flush.asOf)
         IN  [x |-> IF share THEN Offer(x, d, Covered) ELSE x, retry |-> TRUE, now |-> TRUE]

\* Protocol 2 settles one after another, and waits for the upload of each that
\* is wanted.
Advance(s, todo) ==
    LET wanted == {i \in DOMAIN todo : flush.verdict[todo[i]] = "wanted"}
        next == Min(wanted \cup {Len(todo) + 1})
        t == FoldLeft(Settled, s, SubSeq(todo, 1, next - 1))
    IN  IF wanted = {} THEN End(t.x, t.retry, t.now)
        ELSE /\ outbox' = t.x
             /\ flush' = [flush EXCEPT !.at = "upload", !.todo = SubSeq(todo, next, Len(todo)),
                                       !.retry = t.retry, !.now = t.now]

Receive ==
    /\ flush.at = "answered"
    /\ IF ~share THEN End(IF flush.http THEN outbox ELSE Clear(outbox), FALSE, flush.now)
       ELSE IF ~Current(flush.owner) THEN End(outbox, FALSE, flush.now)
       ELSE IF flush.http THEN flush' = [flush EXCEPT !.at = "puts"] /\ UNCHANGED outbox
       ELSE Advance([x |-> outbox, retry |-> FALSE, now |-> flush.now], flush.todo)
    /\ UNCHANGED offerRest

\* Accepted, failed, or refused with another error than "unavailable".
UploadEnds ==
    /\ flush.at = "upload"
    /\ LET d == Head(flush.todo)
           s == [x |-> outbox, retry |-> flush.retry, now |-> flush.now]
       IN  \E t \in {[s EXCEPT !.x = Acknowledge(@, d)], Failed(s, d),
                     [s EXCEPT !.x = Delete(Reject(@, d, served.revision), d)]} :
             Advance(t, Tail(flush.todo))
    /\ UNCHANGED offerRest

\* Over HTTP all that is wanted is put at once; then all are settled.
PutsEnd ==
    /\ flush.at = "puts"
    /\ \E put \in SUBSET {d \in ToSet(flush.todo) : flush.verdict[d] = "wanted"} :
         LET Settle(s, d) == IF d \in put THEN [s EXCEPT !.x = Acknowledge(@, d)]
                             ELSE IF flush.verdict[d] = "wanted" THEN Failed(s, d) ELSE Settled(s, d)
             t == FoldLeft(Settle, [x |-> outbox, retry |-> FALSE, now |-> flush.now], flush.todo)
         IN  End(t.x, t.retry, t.now)
    /\ UNCHANGED offerRest

-----------------------------------------------------------------------------
FlushStep ==
    \/ AccountLoaded \/ CacheAnswers \/ ServerAnswers \/ RequestFails \/ Refused \/ Receive
    \/ UploadEnds \/ PutsEnd

OffersNext ==
    \/ \E d \in Delivery : Observe(d) \/ Expire(d)
    \/ StateChange \/ SetShare \/ Drop \/ Connect \/ ChangeManifest \/ RememberContents
    \/ LoadAccount \/ FlushBegins \/ FlushStep

OffersSpec == OffersInit /\ [][OffersNext]_offerVars

\* Timers fire, and every request and every read of the account ends: each has
\* a timeout.  Whether one succeeds, nobody says.
OffersFair == WF_offerVars(FlushBegins) /\ WF_offerVars(FlushStep)

OffersFairSpec == OffersSpec /\ OffersFair

-----------------------------------------------------------------------------
(* Properties.                                                             *)

\* What its connection can deliver.
Deliverable(d) ==
    share /\ Current(outbox.heldFor) /\ d \in ToSet(outbox.held) /\ TileOf[d] \in Covered

\* telemetry.ts, "a first delivery is never the eviction victim": what is held
\* and was not offered yet stays held, whatever is observed, replayed, trimmed
\* or settled, unless sharing, its connection, its coverage or the identity is
\* gone, or it is in the flush under way.
FirstDeliveryKept ==
    [][\A d \in ToSet(outbox.held) \ ToSet(outbox'.held) :
         \/ d \in outbox.attempted \/ d \in ToSet(flush.todo)
         \/ ~share' \/ ~server'.up \/ outbox.heldFor # server'.owner
         \/ TileOf[d] \notin covers'.tiles \/ account = "unavailable"]_offerVars

\* What is held goes: it is in a flush's hands, or queued with a timer.
HeldGoes ==
    \A d \in Delivery : Deliverable(d) /\ flush.at = "idle" =>
        outbox.timer # "none" /\ Current(outbox.queueFor) /\ d \in ToSet(outbox.queue)

\* The two together.
OffersKept == FirstDeliveryKept /\ []HeldGoes

\* A rejection that suppresses an observation is of the coverage that the
\* userscript has, or newer; except where the receipt expired in its flush and a
\* replay dropped it, so that nothing was left to compare.
RejectionsCurrent ==
    \A d \in Delivery :
        /\ outbox.receipts[d].state = "rejected" /\ outbox.receipts[d].current
        /\ Current(outbox.receiptsFor) /\ TileOf[d] \in Covered
        => outbox.receipts[d].asOf >= covers.revision

\* A replay offers three or more, and not all can be in one flush, which takes the
\* first of each tile and MaxOffers at most.  A replay in every flush can put one
\* that failed before d each time: with two others, d may never be offered.
Crowded(d) ==
    LET replayed == ToSet(recent) \cup ToSet(outbox.held)
    IN  /\ Cardinality(replayed) > 2
        /\ \/ \E e \in replayed \ {d} : TileOf[e] = TileOf[d]
           \/ Cardinality({TileOf[e] : e \in replayed}) > MaxOffers

\* What can be delivered and is not crowded out is offered at last, also when
\* every request fails for ever, unless the identity is not known.
OfferedAtLast ==
    \A d \in Delivery :
        Deliverable(d) /\ d \notin outbox.attempted
            ~> (d \in outbox.attempted \/ ~Deliverable(d) \/ account # "known" \/ Crowded(d))
=============================================================================
