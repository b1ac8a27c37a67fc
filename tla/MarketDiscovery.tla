--------------------------- MODULE MarketDiscovery ---------------------------
(***************************************************************************)
(* What the discovery of markets makes of the answers of Gamma:            *)
(* data/polymarket_market_discovery.py asks for the pages of events and    *)
(* for the markets of the current slots, market_discovery_helpers.py and   *)
(* provider/gamma_market.py turn the payloads into markets, and            *)
(* gamma_resolution.py takes the evidence of a resolution from them.       *)
(*                                                                         *)
(* A payload is a record: the several keys of Gamma for one value are one  *)
(* field, a flag is what _bool_value makes of it, a label is the side that *)
(* _side_from_text reads in it (Other: neither), an amount is in halves    *)
(* (0, 1/2, 1 are 0, 1, 2).  What is absent is None.  A payload that is an *)
(* event has its markets.  A price is None when it is no number.           *)
(***************************************************************************)
EXTENDS Integers, SequencesExt, FiniteSetsExt

CONSTANTS
    PageLimit,      \* GAMMA_PAGE_LIMIT
    BatchSize,      \* GAMMA_RESOLUTION_BATCH_SIZE
    None,           \* what is absent
    Other           \* a text that is neither UP nor DOWN

One == 2
Sides == {"UP", "DOWN"}
VoidOutcome == "void"           \* VOID_OUTCOMES

-----------------------------------------------------------------------------
(* The slots of a timeframe.                                               *)

Base(now, period) == (now \div period) * period

\* build_current_slot_slugs, for one asset and timeframe.
CurrentSlots(now, period, next, grace) ==
    LET base == Base(now, period)
    IN {base + k * period : k \in 0 .. next}
       \cup {b \in {base - period} : grace > 0 /\ now - base < grace}

\* Only the markets that are open now are asked for by slot and window.
WantsOpen(config) == config.activeOnly /\ ~config.closed

AllowedWindow(m, config, now) ==
    \/ ~WantsOpen(config)
    \/ m.start = None \/ m.end = None
    \/ /\ m.start <= now + config.next * m.slug.period
       /\ m.end >= now - config.grace

-----------------------------------------------------------------------------
(* The answers of Gamma.                                                   *)

\* paginate_gamma_events: answers are the pages that Gamma has for the offsets
\* 0, PageLimit, ...; maxPages is None for all.  A short page is the last.
Paginate(answers, maxPages) ==
    LET Ends(n) == \/ Len(answers[n]) < PageLimit
                   \/ maxPages # None /\ n >= Max({maxPages, 1})
    IN FlattenSeq(SubSeq(answers, 1, Min({n \in DOMAIN answers : Ends(n)})))

\* A slot is asked for as an event, then as a market; an error of either is
\* the same as no answer.
SlotPayload(gamma, slug) ==
    IF gamma.event[slug] # None THEN <<gamma.event[slug]>>
    ELSE IF gamma.market[slug] # <<>> THEN <<Head(gamma.market[slug])>>
    ELSE <<>>

\* slugs is the sequence that build_current_slot_slugs makes.
SlotPayloads(gamma, slugs, config) ==
    IF WantsOpen(config) THEN FlattenSeq([i \in DOMAIN slugs |-> SlotPayload(gamma, slugs[i])])
    ELSE <<>>

\* flatten_gamma_markets: a market has what it lacks from its event.
Flatten(payloads) ==
    LET Merged(event, m) ==
            [f \in DOMAIN m |-> IF m[f] = None /\ f # "markets" THEN event[f] ELSE m[f]]
    IN FlattenSeq([i \in DOMAIN payloads |->
           LET event == payloads[i]
           IN IF event.markets # <<>>
              THEN [k \in DOMAIN event.markets |-> Merged(event, event.markets[k])]
              ELSE <<event>>])

-----------------------------------------------------------------------------
(* A payload as a market.                                                  *)

\* match_crypto_updown.
Configured(p, config) ==
    p.slug # None /\ p.slug.asset \in config.assets /\ p.slug.period \in config.periods

AllowedActive(p, config) ==
    LET closed == p.closed \/ p.archived \/ p.resolved
        active == IF p.active = None THEN ~closed ELSE p.active
    IN (config.activeOnly => active) /\ closed = config.closed

\* market_from_gamma raises for a token without a label that names a side.
Parses(p) ==
    \A i \in DOMAIN p.ids :
        p.ids[i] # None => i \in DOMAIN p.labels /\ p.labels[i] \in Sides

LabelledTokens(p) ==
    LET named == SelectSeq([i \in DOMAIN p.ids |-> i], LAMBDA i : p.ids[i] # None)
    IN [k \in DOMAIN named |-> [id |-> p.ids[named[k]], side |-> p.labels[named[k]]]]

\* infer_outcome_tokens: str() makes an id of an absent one, too.
InferredTokens(p) ==
    IF Len(p.ids) < 2 THEN <<>>
    ELSE <<[id |-> p.ids[1], side |-> "UP"], [id |-> p.ids[2], side |-> "DOWN"]>>

OutcomeTokens(p) ==
    IF Len(LabelledTokens(p)) < 2 THEN InferredTokens(p) ELSE LabelledTokens(p)

\* _outcome_prices_from_gamma: one price that is no number spoils all.
Prices(p) == IF \E i \in DOMAIN p.prices : p.prices[i] = None THEN <<>> ELSE p.prices

\* market_status_from_gamma: the first line that applies.
Voided(p) == p.cancelled \/ p.outcome = VoidOutcome
UmaResolved(p) ==
    p.uma = "resolved" /\ (Prices(p) # <<>> \/ p.winner # None \/ p.outcome # None)

MarketStatus(p) ==
    IF Voided(p) THEN "CANCELLED"
    ELSE IF UmaResolved(p) \/ p.status = "RESOLVED" \/ p.resolved THEN "RESOLVED"
    ELSE IF p.status = "CANCELLED" THEN "CANCELLED"
    ELSE IF p.closed \/ p.archived THEN "CLOSED"
    ELSE IF p.status \in {"CLOSED", "ACTIVE", "UNKNOWN"} THEN p.status
    ELSE IF p.active = TRUE THEN "ACTIVE"
    ELSE "UNKNOWN"

\* _resolved_outcome_from_gamma: prices decide before the winning token, and
\* the winning token before the text.
ResolvedOutcome(p) ==
    LET prices == Prices(p)
        won == SelectSeq(LabelledTokens(p), LAMBDA t : t.id = p.winner)
    IN IF prices = <<One, 0>> THEN "UP"
       ELSE IF prices = <<0, One>> THEN "DOWN"
       ELSE IF prices = <<One \div 2, One \div 2>> THEN None
       ELSE IF p.winner # None THEN (IF won = <<>> THEN None ELSE won[1].side)
       ELSE IF p.outcome \in Sides THEN p.outcome
       ELSE None

Market(p) ==
    [condition |-> p.condition, slug |-> p.slug, start |-> p.start, end |-> p.end,
     tokens |-> OutcomeTokens(p), status |-> MarketStatus(p), outcome |-> ResolvedOutcome(p)]

\* parse_gamma_markets: the first payload of a condition is the one that is
\* kept, whatever a later one says.
Markets(payloads, config, now) ==
    LET Keeps(p) == /\ Configured(p, config) /\ AllowedActive(p, config) /\ Parses(p)
                    /\ AllowedWindow(Market(p), config, now)
                    /\ Len(OutcomeTokens(p)) >= 2
        kept == SelectSeq(Flatten(payloads), Keeps)
        First(i) == \A k \in 1 .. i - 1 : kept[k].condition # kept[i].condition
        firsts == SelectSeq([i \in DOMAIN kept |-> i], First)
    IN [k \in DOMAIN firsts |-> Market(kept[firsts[k]])]

\* MarketDiscovery.discover, discover_sync.
Discover(gamma, slugs, config, now) ==
    Markets(Paginate(gamma.pages, config.maxPages)
                \o SlotPayloads(gamma, slugs, config), config, now)

\* _current_markets_for_build: an error of a page is an empty set of markets
\* (the slots' errors never leave SlotPayload).
MarketsForBuild(gamma, slugs, config, now) ==
    IF gamma.fails THEN <<>> ELSE Discover(gamma, slugs, config, now)

\* MarketPairMeta.from_market: ValueError for other than two tokens, KeyError
\* (token_for) for two of the same side.
Binary(m) == Len(m.tokens) = 2
Paired(m) == {m.tokens[i].side : i \in DOMAIN m.tokens} = Sides

\* _discover_in_scope_markets: the markets of the strategy's scope that
\* register, the known ones too.  A ValueError leaves the market out; a
\* KeyError ends the discovery (market_discovery_error).
InScope(markets, scope) ==
    LET Wanted(m) == m.slug.asset \in scope.assets /\ m.slug.period \in scope.periods
        binary == SelectSeq(markets, LAMBDA m : Wanted(m) /\ Binary(m))
    IN IF \A i \in DOMAIN binary : Paired(binary[i]) THEN binary ELSE None

-----------------------------------------------------------------------------
(* The evidence of a resolution.                                           *)

\* resolution_evidence_from_gamma: the outcome of each token of a payload, as
\* pairs (an id that comes twice has the last price).
HasEvidence(p) ==
    /\ p.condition # None /\ p.closed /\ p.uma = "resolved"
    /\ Len(SelectSeq(p.ids, LAMBDA id : id # None)) = 2
    /\ Prices(p) \in {<<0, One>>, <<One, 0>>}

TokenOutcomes(p) ==
    LET ids == SelectSeq(p.ids, LAMBDA id : id # None)
    IN [id \in Range(ids) |-> IF ids[2] = id THEN p.prices[2] ELSE p.prices[1]]

\* query_resolved_markets_by_conditions: in batches; a payload counts for the
\* batch that asks for its condition, the last one wins; an error of a batch
\* is an error of the query.
Batches(wanted) ==
    LET count == (Len(wanted) + BatchSize - 1) \div BatchSize
    IN [b \in 1 .. count |->
            SubSeq(wanted, (b - 1) * BatchSize + 1, Min({b * BatchSize, Len(wanted)}))]

\* Answer(batch) is a sequence of payloads or None.
Evidence(Answer(_), wanted) ==
    LET batches == Batches(wanted)
        Found(b) == SelectSeq(Answer(batches[b]), LAMBDA p :
                                   HasEvidence(p) /\ p.condition \in Range(batches[b]))
        found == FlattenSeq([b \in DOMAIN batches |-> Found(b)])
        LastOf(c) == Max({i \in DOMAIN found : found[i].condition = c})
    IN IF \E b \in DOMAIN batches : Answer(batches[b]) = None THEN None
       ELSE [c \in {found[i].condition : i \in DOMAIN found} |-> TokenOutcomes(found[LastOf(c)])]

=============================================================================
