------------------------- MODULE MCMarketDiscovery -------------------------
(***************************************************************************)
(* The operators of MarketDiscovery against what they are meant to do, for *)
(* all inputs of a small size.  TLC evaluates the assumptions before it    *)
(* runs the module that extends this one.                                  *)
(***************************************************************************)
EXTENDS Integers, SequencesExt, FiniteSetsExt

CONSTANT none, other

D == INSTANCE MarketDiscovery WITH PageLimit <- 2, BatchSize <- 2, None <- none, Other <- other

Config == [assets |-> {"BTC"}, periods |-> {4}, activeOnly |-> TRUE, closed |-> FALSE,
           next |-> 1, grace |-> 2, maxPages |-> none]
Slug(asset, base) == [asset |-> asset, period |-> 4, base |-> base]
Payload(c) ==
    [condition |-> c, slug |-> Slug("BTC", 4), markets |-> <<>>, start |-> 4, end |-> 8,
     ids |-> <<"a", "b">>, labels |-> <<"UP", "DOWN">>, prices |-> <<>>,
     closed |-> FALSE, archived |-> FALSE, resolved |-> FALSE, cancelled |-> FALSE,
     active |-> TRUE, uma |-> none, winner |-> none, outcome |-> none, status |-> none]

\* The slots that are asked for are the ones that the window of parsing lets
\* pass, so no answer is asked for in vain; when the grace is shorter than the
\* period, the window lets pass no other slot, but the one before at the very
\* end of the grace.
ASSUME SlotsAreAllowed ==
    \A now \in 4 .. 11, period \in 2 .. 4, next \in 0 .. 2, grace \in 0 .. 3 :
        LET slots == D!CurrentSlots(now, period, next, grace)
            config == [Config EXCEPT !.next = next, !.grace = grace]
            Slot(b) == [slug |-> [asset |-> "BTC", period |-> period, base |-> b],
                        start |-> b, end |-> b + period]
            allowed == {b \in {k * period : k \in 0 .. 15} : D!AllowedWindow(Slot(b), config, now)}
        IN /\ slots \subseteq allowed
           /\ grace < period => allowed \ slots \subseteq {b \in allowed : b + period = now - grace}

\* Every event is read once, up to the pages that are asked for, also when
\* the last page is full.
ASSUME PagesAreComplete ==
    \A count \in 0 .. 6, maxPages \in {none} \cup 0 .. 3 :
        LET listed == [i \in 1 .. count |-> i]
            answers == [k \in 1 .. 4 |->
                           SubSeq(listed, 2 * (k - 1) + 1, Min({2 * k, count}))]
            read == D!Paginate(answers, maxPages)
        IN read = SubSeq(listed, 1,
                         IF maxPages = none THEN count ELSE Min({count, 2 * Max({maxPages, 1})}))

-----------------------------------------------------------------------------
Labels == {"UP", "DOWN", other, none}
TokenLists == {"a", "b", none} \X {"a", "b", none} \cup {<<"a">>, <<>>}
LabelLists == (Labels \X Labels) \cup {<<l>> : l \in Labels} \cup {<<>>}
Tokened == {[Payload("c") EXCEPT !.ids = ids, !.labels = labels] :
                ids \in TokenLists, labels \in LabelLists}

\* No side is made up: in a market whose payload has an id for each token, a
\* token has the side of its label.  (With one id absent the sides follow the
\* index: InferredTokens.)  Two tokens of one side end the discovery for
\* everyone.
ASSUME SidesFollowLabels ==
    \A p \in Tokened :
        LET markets == D!Markets(<<p>>, Config, 5)
            complete == none \notin Range(p.ids) /\ Len(p.ids) = 2
        IN /\ complete /\ markets # <<>> =>
                 \A i \in 1 .. 2 : markets[1].tokens[i].side = p.labels[i]
           /\ (D!InScope(markets, Config) = none) =
                 (complete /\ p.labels \in {<<"UP", "UP">>, <<"DOWN", "DOWN">>})

Varied == UNION {{[Payload(c) EXCEPT !.slug = slug, !.end = end],
                  [Payload(c) EXCEPT !.slug = slug, !.end = end, !.active = FALSE],
                  [Payload(c) EXCEPT !.slug = none, !.end = none]} :
                     c \in {"c", "d"}, slug \in {Slug("BTC", 4), Slug("XRP", 4)}, end \in {2, 8}}
Events == {<<p>> : p \in Varied}
    \cup {<<[Payload("e") EXCEPT !.markets = <<p, q>>, !.slug = Slug("BTC", 4)]>> :
              p, q \in Varied}
    \cup {<<p, q>> : p, q \in Varied}

\* A condition is one market, and no condition that is wanted is lost, however
\* the answers repeat it: as events, or as the markets of one.
ASSUME ConditionsAreOnce ==
    \A payloads \in Events :
        LET markets == D!Markets(payloads, Config, 5)
            flat == D!Flatten(payloads)
            wanted == {p \in Range(flat) : D!Configured(p, Config) /\ p.active = TRUE
                                           /\ D!AllowedWindow(p, Config, 5)}
        IN /\ IsInjective([i \in DOMAIN markets |-> markets[i].condition])
           /\ {markets[i].condition : i \in DOMAIN markets} = {p.condition : p \in wanted}

\* What a slot adds to the pages: a market that is past the pages that are
\* read, or that only the market query knows, is found by its slot; one that
\* both know is there once; an error of a slot loses nothing else.
ASSUME SlotsAddToPages ==
    \A page \in {<<>>, <<Payload("c")>>}, event \in {none, Payload("c")},
       answers \in {<<>>, <<Payload("c")>>, <<Payload("d"), Payload("c")>>} :
        LET slug == Slug("BTC", 4)
            gamma == [pages |-> <<page>>, event |-> [s \in {slug} |-> event],
                      market |-> [s \in {slug} |-> answers], fails |-> FALSE]
            found == D!Discover(gamma, <<slug>>, Config, 5)
        IN /\ {found[i].condition : i \in DOMAIN found} =
                 Range([i \in DOMAIN page |-> "c"])
                 \cup (IF event # none THEN {"c"}
                       ELSE IF answers = <<>> THEN {} ELSE {answers[1].condition})
           /\ IsInjective(found)
           /\ D!MarketsForBuild([gamma EXCEPT !.fails = TRUE], <<slug>>, Config, 5) = <<>>

-----------------------------------------------------------------------------
PriceLists == {<<>>, <<2, 0>>, <<0, 2>>, <<1, 1>>, <<none, 2>>, <<2>>}
Resolutions ==
    {[Payload("c") EXCEPT !.labels = labels, !.prices = prices, !.closed = closed, !.uma = uma,
                          !.cancelled = cancelled, !.outcome = outcome, !.winner = winner] :
        labels \in {<<"UP", "DOWN">>, <<"DOWN", "UP">>}, prices \in PriceLists,
        closed \in BOOLEAN, uma \in {none, "resolved"}, cancelled \in BOOLEAN,
        outcome \in {none, "UP", "DOWN", D!VoidOutcome}, winner \in {none, "a", "b", "z"}}

\* The two readings of a resolution agree: a payload that is evidence is a
\* market that is resolved, unless it is void; one token gets everything, and
\* its side is the outcome of the market exactly when the first token is UP.
ASSUME ReadingsAgree ==
    \A p \in Resolutions : D!HasEvidence(p) =>
        LET outcomes == D!TokenOutcomes(p)
            won == CHOOSE i \in DOMAIN p.ids : outcomes[p.ids[i]] = D!One
        IN /\ outcomes["a"] + outcomes["b"] = D!One
           /\ D!MarketStatus(p) = IF D!Voided(p) THEN "CANCELLED" ELSE "RESOLVED"
           /\ (p.labels[won] = D!ResolvedOutcome(p)) = (p.labels = <<"UP", "DOWN">>)

\* Each batch of conditions gets its own evidence, and only what was asked
\* for; one batch that fails fails the query.
ASSUME EvidenceIsOfTheWanted ==
    LET Proof(c, prices) == [Payload(c) EXCEPT !.closed = TRUE, !.uma = "resolved",
                                               !.prices = prices]
        payloads == {Proof(c, prices) : c \in {"c", "d", "e"}, prices \in {<<2, 0>>, <<1, 1>>}}
    IN \A first, second \in {none} \cup {<<p>> : p \in payloads}
                            \cup {<<p, q>> : p, q \in payloads} :
        LET Answer(batch) == IF "c" \in Range(batch) THEN first ELSE second
            evidence == D!Evidence(Answer, <<"c", "d", "e">>)
            Proves(answer, c) == \E i \in DOMAIN answer : answer[i] = Proof(c, <<2, 0>>)
        IN IF none \in {first, second} THEN evidence = none
           ELSE DOMAIN evidence = {c \in {"c", "d"} : Proves(first, c)}
                                  \cup {c \in {"e"} : Proves(second, c)}
=============================================================================
