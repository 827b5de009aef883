------------------------------ MODULE Registry ------------------------------
(***************************************************************************)
(* The market registry and the hourly service that rewrites it             *)
(* (ops/systemd/rotate.service): the house sync, which settles our         *)
(* finished games on Core, registers fixtures and wraps new outcomes in    *)
(* vaults (tools/house-markets.mjs); then the rotation, which retires rows *)
(* and wraps what is left (tools/rotate-markets.mjs); then a restart of    *)
(* the keeper when the file is newer than the last one.  Either program    *)
(* may fail or be killed at any point, in the middle of its write as well, *)
(* which truncates the file first: what it leaves then is not JSON, and    *)
(* neither program nor the keeper starts on it.  The keeper settles and    *)
(* relays the vaults of the rows it read when it started.                  *)
(***************************************************************************)
EXTENDS HousePlan

CONSTANTS
    Kickoffs,       \* the kickoffs a fixture may first be announced for
    MinLeft,        \* what the rotation wants left before a deadline
    MaxTime         \* bound: hours

ASSUME RegistryAssumption == Kickoffs \subseteq Nat /\ {MinLeft, MaxTime} \subseteq Nat

VARIABLES
    now,
    espn,       \* game -> [kickoff, final, moved]: what ESPN says of it
    core,       \* contract -> [venue, pays, told, due]: outcomeMeta, and of a
                \* settlement what ESPN had said and whether it was past its deadline
    source,     \* coin -> its 998 vault: "none", "open" or "settled"
    leg,        \* coin -> its Elysium leg, which the ParlayVault reads
    file,       \* [markets, archived, whole]: the coins of registry/markets.json, and
                \* whether it can be parsed
    newer,      \* the file is newer than the service's stamp
    watch,      \* the coins of the rows the keeper read when it started
    job         \* the service's run: what it has read and has still to do

vars == <<now, espn, core, source, leg, file, newer, watch, job>>

\* The outcomes of a contract that are wrapped: its fallback is not.
CoinsOf(c) == {<<c, side>> : side \in IF c[1] \in Standalone THEN {"yes"} ELSE Sides}

Listed == {c \in DOMAIN core : core[c].pays = NoResult}     \* outcomeMeta
\* A map with more entries, which hide those that it had.
Over(new, old) == [x \in DOMAIN new \cup DOMAIN old |-> IF x \in DOMAIN new THEN new[x] ELSE old[x]]
Opened(map, coin) == [c \in DOMAIN map \cup {coin} |-> IF c = coin THEN "open" ELSE map[c]]
Status(map, coin) == IF coin \in DOMAIN map THEN map[coin] ELSE "none"

Asleep == [step |-> "asleep", todo |-> {}, kept |-> {}, archived |-> {},
           write |-> FALSE, failed |-> FALSE]

Init ==
    /\ now = 0
    /\ espn \in [Games -> [kickoff : Kickoffs, final : {NoResult}, moved : {FALSE}]]
    /\ core = <<>> /\ source = <<>> /\ leg = <<>>
    /\ file = [markets |-> {}, archived |-> {}, whole |-> TRUE]
    /\ newer = FALSE /\ watch = {} /\ job = Asleep

-----------------------------------------------------------------------------
(* The world: the clock, and ESPN moving and ending games. *)

\* A unit of time is long against a run: a run ends in the one it began in.
Tick ==
    /\ now < MaxTime /\ job.step = "asleep"
    /\ now' = now + 1
    /\ UNCHANGED <<espn, core, source, leg, file, newer, watch, job>>

Move(g) ==
    /\ espn[g].final = NoResult /\ (\A h \in Games : ~espn[h].moved) /\ now < espn[g].kickoff
    /\ \E later \in {1, Deadline + 1} :
          espn' = [espn EXCEPT ![g].kickoff = @ + later, ![g].moved = TRUE]
    /\ UNCHANGED <<now, core, source, leg, file, newer, watch, job>>

End(g) ==
    /\ espn[g].final = NoResult /\ espn[g].kickoff <= now
    /\ \E side \in Sides : espn' = [espn EXCEPT ![g].final = side]
    /\ UNCHANGED <<now, core, source, leg, file, newer, watch, job>>

-----------------------------------------------------------------------------
(* The house sync. *)

\* What ESPN answers a sync with: the recent games of the leagues whose feed
\* is up.
Fixtures(up, at) == [g \in {g \in up : espn[g].kickoff >= at - Back} |-> espn[g]]

\* A league whose feed is down is left alone entirely.
Settling(up, fixtures, at) ==
    {c \in Listed : c[1] \in up /\ IsSettling(c, fixtures, at)}

OnVenue(contracts, v) == {c \in contracts : core[c].venue = v}
Held(settling) == [v \in Venues |-> Taken(OnVenue(Listed \ settling, v))]

\* The fixtures that may be registered: not ours yet, inside the window.
Wanted(games, fixtures, at) == {g \in games \cap DOMAIN fixtures :
    InWindow(fixtures[g], at) /\ ~\E c \in Listed : c[1] = g /\ HasFixture(c, fixtures)}

\* New contracts, at most places[v] of them on venue v: a fixture without
\* odds, a refused call and the rest of that venue's queue leave fewer.
Registrations(games, places) ==
    {on \in [games -> Venues \cup {0}] :
        \A v \in Venues : Cardinality({g \in games : on[g] = v}) <= places[v]}

Registered(on, fixtures) ==
    [c \in {<<g, fixtures[g].kickoff>> : g \in {g \in DOMAIN on : on[g] # 0}} |->
        [venue |-> on[c[1]], pays |-> NoResult, told |-> NoResult, due |-> FALSE]]

\* The coins a sync wraps: those without a row, of listed contracts that it
\* does not settle and that have not started.
Unwrapped(listed, up, fixtures, at, board) ==
    (UNION {CoinsOf(c) : c \in {c \in listed :
        c[1] \in up /\ c[2] > at /\ ~IsSettling(c, fixtures, at)}}) \ board

\* One sync's calls to Core: settlements, registrations, and a new plan of what
\* to wrap.  Any call may fail; the priors of rows before kickoff may move.  The
\* file is parsed before the first of them.
Sync ==
    /\ job.step = "asleep" /\ file.whole
    /\ \E up \in {Standalone, Games} :
        LET fixtures == Fixtures(up, now)
            settling == Settling(up, fixtures, now)
            held == Held(settling)
            listed == Cardinality({c \in Listed \ settling : c[1] \in Standalone})
            games == Wanted(Standalone, fixtures, now)
            matches == Wanted(Matches, fixtures, now)
            gamePlaces == GamePlaces(held, listed, Cardinality(games))
            matchPlaces == QuestionPlaces(held, listed, gamePlaces, Cardinality(matches))
        IN \E paid \in SUBSET settling, onGames \in Registrations(games, gamePlaces),
              onMatches \in Registrations(matches, matchPlaces),
              moved \in {FALSE, \E coin \in file.markets : coin[1][2] > now} :
            /\ core' = Over(Registered(Over(onGames, onMatches), fixtures),
                   [c \in DOMAIN core |-> IF c \in paid
                       THEN [core[c] EXCEPT !.pays = Pays(c, fixtures),
                                            !.told = espn[c[1]].final, !.due = Expiry(c) <= now]
                       ELSE core[c]])
            /\ job' = [step |-> "wrap", kept |-> file.markets, archived |-> file.archived,
                       write |-> moved, failed |-> FALSE,
                       todo |-> Unwrapped({c \in DOMAIN core' : core'[c].pays = NoResult},
                                          up, fixtures, now, file.markets)]
    /\ UNCHANGED <<now, espn, source, leg, file, newer, watch>>

\* The sync fails before its first call: the service goes on to the rotation.
SyncFails ==
    /\ job.step = "asleep"
    /\ job' = [job EXCEPT !.step = "rotate"]
    /\ UNCHANGED <<now, espn, core, source, leg, file, newer, watch>>

-----------------------------------------------------------------------------
(* Wrapping, the same for both programs: a vault on 998 and its leg on     *)
(* Elysium, reusing what a killed run already landed; rows are written at  *)
(* the end, whether or not a deployment failed.                            *)

Wrapping == job.step \in {"wrap", "deploy"}
IsNext(coin) == Wrapping /\ job.todo # {} /\ coin = CHOOSE c \in job.todo : TRUE

Wrap(coin) ==
    /\ IsNext(coin)
    /\ source' = Opened(source, coin)
    /\ leg' = Opened(leg, coin)
    /\ job' = [job EXCEPT !.todo = @ \ {coin}, !.kept = @ \cup {coin}, !.write = TRUE]
    /\ UNCHANGED <<now, espn, core, file, newer, watch>>

\* The vault, or only its leg, does not land: the run is over but for its write.
WrapFails(coin) ==
    /\ IsNext(coin)
    /\ source' \in {source, Opened(source, coin)}
    /\ job' = [job EXCEPT !.todo = {}, !.failed = TRUE]
    /\ UNCHANGED <<now, espn, core, leg, file, newer, watch>>

Write ==
    /\ Wrapping /\ job.todo = {}
    /\ file' = IF job.write THEN [markets |-> job.kept, archived |-> job.archived, whole |-> TRUE]
                            ELSE file
    /\ newer' = (newer \/ job.write)
    /\ job' = IF job.step = "wrap" THEN [Asleep EXCEPT !.step = "rotate"]
              ELSE IF job.failed THEN Asleep ELSE [Asleep EXCEPT !.step = "restart"]
    /\ UNCHANGED <<now, espn, core, source, leg, watch>>

\* What a kill or a full disk in the middle of the write leaves.
Torn == [markets |-> {}, archived |-> {}, whole |-> FALSE]

\* The write truncates the file and does not come to its end.
WriteCut ==
    /\ Wrapping /\ job.todo = {} /\ job.write
    /\ file' = Torn /\ newer' = TRUE
    /\ job' = IF job.step = "wrap" THEN [Asleep EXCEPT !.step = "rotate"] ELSE Asleep
    /\ UNCHANGED <<now, espn, core, source, leg, watch>>

\* A program is killed, or fails outside a deployment, before or after its write.
Killed ==
    /\ job.step # "asleep"
    /\ job' = IF job.step = "wrap" THEN [Asleep EXCEPT !.step = "rotate"] ELSE Asleep
    /\ UNCHANGED <<now, espn, core, source, leg, file, newer, watch>>

-----------------------------------------------------------------------------
(* The rotation, and the restart after it. *)

\* Mutant: a row is done when its 998 vault is settled.
SourceSettled(coin) == Status(source, coin) = "settled"

\* A row is done when the leg the ParlayVault reads is settled.
Done(coin) == Status(leg, coin) = "settled"

\* A row leaves the board at its deadline, or when it is read as done; a read
\* that fails counts as not settled.
Retirable == {file.markets \ kept : kept \in
    {kept \in SUBSET file.markets : \A coin \in file.markets :
        /\ Expiry(coin[1]) <= now => coin \notin kept
        /\ ~Done(coin) /\ Expiry(coin[1]) > now => coin \in kept}}

\* What the rotation may wrap: listed contracts, whole ones of which it knows
\* no row, that have time left.  Caps, missing mids and scopes leave some out.
Pickable == {c \in Listed : Expiry(c) - now >= MinLeft /\ CoinsOf(c) \cap file.markets = {}}

Rotate ==
    /\ job.step = "rotate" /\ file.whole
    /\ \E retired \in Retirable, picks \in SUBSET Pickable :
        job' = [step |-> "deploy", todo |-> UNION {CoinsOf(c) : c \in picks},
                kept |-> file.markets \ retired, archived |-> file.archived \cup retired,
                write |-> retired # {} \/ picks # {}, failed |-> FALSE]
    /\ UNCHANGED <<now, espn, core, source, leg, file, newer, watch>>

Restart ==
    /\ job.step = "restart"
    /\ watch' = IF newer THEN file.markets ELSE watch
    /\ newer' = FALSE /\ job' = Asleep
    /\ UNCHANGED <<now, espn, core, source, leg, file>>

-----------------------------------------------------------------------------
(* The keeper. *)

\* On a file that is cut the keeper does not start, and watches nothing.
KeeperRestarts ==
    /\ watch' = file.markets
    /\ UNCHANGED <<now, espn, core, source, leg, file, newer, job>>

SettleVault(coin) ==
    /\ coin \in watch /\ Status(source, coin) = "open" /\ core[coin[1]].pays # NoResult
    /\ source' = [source EXCEPT ![coin] = "settled"]
    /\ UNCHANGED <<now, espn, core, leg, file, newer, watch, job>>

Relay(coin) ==
    /\ coin \in watch /\ Status(source, coin) = "settled" /\ Status(leg, coin) = "open"
    /\ leg' = [leg EXCEPT ![coin] = "settled"]
    /\ UNCHANGED <<now, espn, core, source, file, newer, watch, job>>

-----------------------------------------------------------------------------
Next ==
    \/ Tick
    \/ \E g \in Games : Move(g) \/ End(g)
    \/ Sync \/ SyncFails \/ Write \/ WriteCut \/ Killed \/ Rotate \/ Restart \/ KeeperRestarts
    \/ \E coin \in job.todo : Wrap(coin) \/ WrapFails(coin)
    \/ \E coin \in watch : SettleVault(coin) \/ Relay(coin)

Spec == Init /\ [][Next]_vars

TypeOK ==
    /\ now \in 0..MaxTime
    /\ espn \in [Games -> [kickoff : Nat, final : Sides \cup {NoResult}, moved : BOOLEAN]]
    /\ \A c \in DOMAIN core : c \in Games \X Nat /\
          core[c] \in [venue : Venues, pays : Sides \cup {NoResult},
                      told : Sides \cup {NoResult}, due : BOOLEAN]
    /\ DOMAIN leg \subseteq DOMAIN source /\ DOMAIN source \subseteq UNION {CoinsOf(c) : c \in DOMAIN core}
    /\ file \in [markets : SUBSET DOMAIN leg, archived : SUBSET DOMAIN leg, whole : BOOLEAN]
    /\ newer \in BOOLEAN /\ watch \subseteq DOMAIN leg
    /\ job.step \in {"asleep", "wrap", "rotate", "deploy", "restart"}

\* The rows of the next file against this one: none is lost, and one leaves the
\* board only when the leg its tickets read is settled or its deadline passed.
RowsAreKept ==
    /\ file.archived \subseteq file'.archived
    /\ \A coin \in file.markets \ file'.markets :
          /\ coin \in file'.archived
          /\ leg[coin] = "settled" \/ Expiry(coin[1]) <= now

\* Every write that comes to its end keeps the rows, whatever the sync, the
\* rotation and the keeper did since the file was read, and whatever failed or was
\* killed (rotate-markets.mjs:14-16, 33, 48); one that is cut loses them, and no
\* run registers, settles or writes anything from what it left.
OpenLegsStayListed == [][
    /\ file'.whole => RowsAreKept
    /\ ~file.whole => UNCHANGED <<file, core>>]_vars

\* Core is only ever told a result ESPN reported; a question without one is a
\* draw, after its deadline, while ESPN still has the match: an outage, a moved
\* kickoff or a match ESPN no longer shows never settles one blind.
ResultsAreReported == \A c \in DOMAIN core \ Listed :
    \/ core[c].pays = core[c].told
    \/ /\ core[c].pays = "draw" /\ core[c].due
       /\ c[1] \in Matches => core[c].told = NoResult

\* The contracts of a venue that are neither over nor past their deadline
Active(v) == {c \in OnVenue(Listed, v) : Expiry(c) > now /\ espn[c[1]].final = NoResult}

\* What is active on a venue fits its budget, whichever settlements and
\* registrations failed on the way (house-lib.mjs:253-280).
VenuesWithinBudget == TypeOK /\ \A v \in Venues : Taken(Active(v)) <= MaxActive

\* What rotate-markets.mjs:47 says of the rows it archives, "Retain metadata for
\* settlement recovery of retired vaults", and what a write that is cut does not
\* do: no run lists it.
RowsSurvive == [][RowsAreKept]_vars

\* What rotate-markets.mjs:14 says of the row it retires, and what its line 33
\* does not do: no run lists it.
RetiredIsSettled == \A coin \in file.archived : leg[coin] = "settled"
=============================================================================
