--------------------------- MODULE RegistryProofs ---------------------------
(***************************************************************************)
(* Proofs about the hourly service of module Registry: its types, that no  *)
(* row leaves the board early, that Core is only told what was reported,   *)
(* and that the venues' budgets hold, for every schedule, window and set   *)
(* of games.                                                               *)
(***************************************************************************)
EXTENDS Registry, FiniteSetTheorems, WellFoundedInduction, TLAPS

Steps == {"asleep", "wrap", "rotate", "deploy", "restart"}
Contract == [venue : Venues, pays : Sides \cup {NoResult},
             told : Sides \cup {NoResult}, due : BOOLEAN]
Coins == UNION {CoinsOf(c) : c \in DOMAIN core}

\* What a run of the service holds: coins of known contracts to wrap, rows that
\* have a leg.
JobOK ==
    /\ job \in [step : Steps, todo : SUBSET Coins, kept : SUBSET DOMAIN leg,
                archived : SUBSET DOMAIN leg, write : BOOLEAN, failed : BOOLEAN]

\* The file a run is about to write against the one it read: nothing is lost,
\* what left is archived and was done or due, and no row is wrapped anew.  A
\* run has parsed the file, and the restart comes only after one.
RunOK ==
    /\ Wrapping =>
          /\ job.todo \cap file.markets = {}
          /\ file.archived \subseteq job.archived
          /\ \A coin \in file.markets \ job.kept :
                coin \in job.archived /\ (leg[coin] = "settled" \/ Expiry(coin[1]) <= now)
    /\ Wrapping \/ job.step = "restart" => file.whole

\* What the file may be.
Files == [markets : SUBSET DOMAIN leg, archived : SUBSET DOMAIN leg, whole : BOOLEAN]

RegistryInv == TypeOK /\ JobOK /\ RunOK

-----------------------------------------------------------------------------
\* A coin that is known is a pair whose contract has a kickoff.
LEMMA CoinsAreKnown == ASSUME TypeOK, NEW coin \in Coins
    PROVE coin[1] \in DOMAIN core /\ coin[1][2] \in Nat /\ Expiry(coin[1]) \in Int
<1>1. PICK c \in DOMAIN core : coin \in CoinsOf(c)
  BY DEF Coins
<1>2. coin[1] = c
  BY <1>1 DEF CoinsOf
<1>3. c[2] \in Nat
  BY DEF TypeOK
<1> QED
  BY <1>2, <1>3, PlanAssumption DEF Expiry

\* Every leg is of a known coin.
LEMMA LegsAreKnown == ASSUME TypeOK PROVE DOMAIN leg \subseteq Coins
BY DEF TypeOK, Coins

\* The service starts in the invariant.
LEMMA InitOK == ASSUME Init PROVE RegistryInv
<1>1. DOMAIN core = {} /\ DOMAIN leg = {} /\ DOMAIN source = {}
  BY DEF Init
<1>2. espn \in [Games -> [kickoff : Nat, final : Sides \cup {NoResult}, moved : BOOLEAN]]
  BY RegistryAssumption DEF Init
<1>3. now \in 0..MaxTime
  BY RegistryAssumption DEF Init
<1>4. TypeOK
  BY <1>1, <1>2, <1>3 DEF Init, TypeOK, Asleep
<1>5. JobOK
  BY <1>1 DEF Init, JobOK, Asleep, Steps
<1>6. RunOK
  BY DEF Init, RunOK, Wrapping, Asleep
<1> QED
  BY <1>4, <1>5, <1>6 DEF RegistryInv

-----------------------------------------------------------------------------
(* The sync. *)

\* What a sync registers is well typed and not settled.
LEMMA RegisteredOK ==
    ASSUME NEW on, NEW fixtures, DOMAIN on \subseteq Games,
           \A g \in DOMAIN on : on[g] \in Venues \cup {0} /\ fixtures[g].kickoff \in Nat,
           NEW c \in DOMAIN Registered(on, fixtures)
    PROVE  /\ c \in Games \X Nat
           /\ Registered(on, fixtures)[c] \in Contract
           /\ Registered(on, fixtures)[c].pays = NoResult
<1>1. PICK g \in DOMAIN on : on[g] # 0 /\ c = <<g, fixtures[g].kickoff>>
  BY DEF Registered
<1>2. g \in Games /\ on[g] \in Venues /\ fixtures[g].kickoff \in Nat /\ c[1] = g
  BY <1>1
<1>3. Registered(on, fixtures)[c] =
        [venue |-> on[g], pays |-> NoResult, told |-> NoResult, due |-> FALSE]
  BY <1>1, <1>2 DEF Registered
<1> QED
  BY <1>1, <1>2, <1>3 DEF Contract

\* What a sync settles is told as ESPN says it, a draw otherwise.
LEMMA PaysAsTold ==
    ASSUME TypeOK, NEW up, NEW c \in Settling(up, Fixtures(up, now), now)
    PROVE  /\ c \in DOMAIN core /\ Pays(c, Fixtures(up, now)) \in Sides \cup {NoResult}
           /\ \/ Pays(c, Fixtures(up, now)) = espn[c[1]].final
              \/ /\ Pays(c, Fixtures(up, now)) = "draw" /\ Expiry(c) <= now
                 /\ c[1] \in Matches => espn[c[1]].final = NoResult
<1> DEFINE fixtures == Fixtures(up, now)
<1>1. c \in DOMAIN core /\ IsSettling(c, fixtures, now)
  BY DEF Settling, Listed
<1>2. c[1] \in Games /\ espn[c[1]].final \in Sides \cup {NoResult}
  BY <1>1 DEF TypeOK
<1>3. c[1] \in DOMAIN fixtures => fixtures[c[1]] = espn[c[1]]
  BY DEF Fixtures
<1>4. CASE Final(c, fixtures)
  BY <1>1, <1>2, <1>3, <1>4 DEF Final, HasFixture, Pays
<1>5. CASE ~Final(c, fixtures)
  <2>1. Pays(c, fixtures) = "draw" /\ "draw" \in Sides
    BY <1>5, PlanAssumption DEF Pays
  <2>2. Expiry(c) <= now /\ (c[1] \in Standalone \/ HasFixture(c, fixtures))
    BY <1>1, <1>5 DEF IsSettling
  <2>3. c[1] \in Matches => espn[c[1]].final = NoResult
    <3>1. c[1] \in Matches => HasFixture(c, fixtures)
      BY <2>2, PlanAssumption
    <3>2. HasFixture(c, fixtures) => c[1] \in DOMAIN fixtures /\ fixtures[c[1]].final = NoResult
      BY <1>5 DEF Final, HasFixture
    <3> QED
      BY <3>1, <3>2, <1>3
  <2> QED
    BY <1>1, <2>1, <2>2, <2>3
<1> QED
  BY <1>4, <1>5

\* A sync keeps every contract it knew, and changes those that it settles; the
\* others it leaves or registers.
LEMMA SyncOnCore ==
    ASSUME TypeOK, Sync
    PROVE  /\ DOMAIN core \subseteq DOMAIN core'
           /\ \A c \in DOMAIN core' :
                 /\ c \in Games \X Nat /\ core'[c] \in Contract
                 /\ \/ core'[c].pays = NoResult
                    \/ c \in DOMAIN core /\ core'[c] = core[c]
                    \/ core'[c].pays = core'[c].told
                    \/ /\ core'[c].pays = "draw" /\ core'[c].due
                       /\ c[1] \in Matches => core'[c].told = NoResult
<1>a. PICK up \in {Standalone, Games} :
        LET fixtures == Fixtures(up, now)
            settling == Settling(up, fixtures, now)
            held == Held(settling)
            listed == Cardinality({c \in Listed \ settling : c[1] \in Standalone})
            games == Wanted(Standalone, fixtures, now)
            matches == Wanted(Matches, fixtures, now)
            gamePlaces == GamePlaces(held, listed, Cardinality(games))
            matchPlaces == QuestionPlaces(held, listed, gamePlaces, Cardinality(matches))
        IN \E paid \in SUBSET settling, onGames \in Registrations(games, gamePlaces),
              onMatches \in Registrations(matches, matchPlaces) :
            core' = Over(Registered(Over(onGames, onMatches), fixtures),
                   [c \in DOMAIN core |-> IF c \in paid
                       THEN [core[c] EXCEPT !.pays = Pays(c, fixtures),
                                            !.told = espn[c[1]].final, !.due = Expiry(c) <= now]
                       ELSE core[c]])
  BY Zenon DEF Sync
<1>b. \A games, places : \A on \in Registrations(games, places) : on \in [games -> Venues \cup {0}]
  BY DEF Registrations
<1>1. PICK paid \in SUBSET Settling(up, Fixtures(up, now), now),
           onGames \in [Wanted(Standalone, Fixtures(up, now), now) -> Venues \cup {0}],
           onMatches \in [Wanted(Matches, Fixtures(up, now), now) -> Venues \cup {0}] :
        core' = Over(Registered(Over(onGames, onMatches), Fixtures(up, now)),
               [c \in DOMAIN core |-> IF c \in paid
                   THEN [core[c] EXCEPT !.pays = Pays(c, Fixtures(up, now)),
                                        !.told = espn[c[1]].final, !.due = Expiry(c) <= now]
                   ELSE core[c]])
  BY <1>a, <1>b, Zenon
<1> DEFINE fixtures == Fixtures(up, now)
           on == Over(onGames, onMatches)
           new == Registered(on, fixtures)
           old == [c \in DOMAIN core |-> IF c \in paid
                   THEN [core[c] EXCEPT !.pays = Pays(c, fixtures),
                                        !.told = espn[c[1]].final, !.due = Expiry(c) <= now]
                   ELSE core[c]]
<1>2. \A g \in DOMAIN fixtures : g \in Games /\ fixtures[g].kickoff \in Nat
  BY <1>1 DEF Fixtures, TypeOK, Games
<1>3. \A g \in DOMAIN on : g \in DOMAIN fixtures /\ on[g] \in Venues \cup {0}
  BY <1>1 DEF Wanted, Over
<1>4. DOMAIN on \subseteq Games /\
      \A g \in DOMAIN on : on[g] \in Venues \cup {0} /\ fixtures[g].kickoff \in Nat
  BY <1>2, <1>3
<1>5. /\ DOMAIN core' = DOMAIN new \cup DOMAIN core
      /\ \A c \in DOMAIN new : core'[c] = new[c]
      /\ \A c \in DOMAIN core \ DOMAIN new : core'[c] = old[c]
  <2>1. core' = Over(new, old)
    BY <1>1
  <2> HIDE DEF new
  <2> QED
    BY <2>1 DEF Over
<1>6. \A c \in DOMAIN new : c \in Games \X Nat /\ new[c] \in Contract /\ new[c].pays = NoResult
  BY <1>4, RegisteredOK
<1>7. ASSUME NEW c \in DOMAIN core
      PROVE  /\ c \in Games \X Nat /\ old[c] \in Contract
             /\ \/ old[c] = core[c]
                \/ old[c].pays = old[c].told
                \/ /\ old[c].pays = "draw" /\ old[c].due
                   /\ c[1] \in Matches => old[c].told = NoResult
  <2>1. c \in Games \X Nat /\ core[c] \in Contract
    BY DEF TypeOK, Contract
  <2>2. CASE c \notin paid
    BY <2>1, <2>2
  <2>3. CASE c \in paid
    <3>1. c \in Settling(up, fixtures, now)
      BY <1>1, <2>3
    <3>2. old[c] = [core[c] EXCEPT !.pays = Pays(c, fixtures),
                                   !.told = espn[c[1]].final, !.due = Expiry(c) <= now]
      BY <2>3
    <3>3. espn[c[1]].final \in Sides \cup {NoResult}
      BY <2>1 DEF TypeOK
    <3>4. /\ old[c].pays = Pays(c, fixtures) /\ old[c].told = espn[c[1]].final
          /\ old[c].due = (Expiry(c) <= now) /\ old[c].venue = core[c].venue
      BY <2>1, <3>2 DEF Contract
    <3>5. Pays(c, fixtures) \in Sides \cup {NoResult}
      BY <3>1, PaysAsTold
    <3>6. (Expiry(c) <= now) \in BOOLEAN
      OBVIOUS
    <3>7. old[c] \in Contract
      BY <2>1, <3>2, <3>3, <3>5, <3>6 DEF Contract
    <3>8. \/ Pays(c, fixtures) = espn[c[1]].final
          \/ /\ Pays(c, fixtures) = "draw" /\ Expiry(c) <= now
             /\ c[1] \in Matches => espn[c[1]].final = NoResult
      BY <3>1, PaysAsTold
    <3>9. Expiry(c) <= now => old[c].due
      BY <3>4
    <3> HIDE DEF old
    <3> QED
      BY <2>1, <3>4, <3>7, <3>8, <3>9, Zenon
  <2> QED
    BY <2>2, <2>3
<1> HIDE DEF new, old
<1> QED
  BY <1>5, <1>6, <1>7

\* Contracts that a sync adds keep every coin known.
LEMMA CoinsStayKnown == ASSUME DOMAIN core \subseteq DOMAIN core' PROVE Coins \subseteq Coins'
BY DEF Coins, CoinsOf

\* What is to be wrapped has no row and is of a listed contract.
LEMMA UnwrappedIsNew ==
    ASSUME NEW listed, NEW up, NEW fixtures, NEW at, NEW board,
           NEW coin \in Unwrapped(listed, up, fixtures, at, board)
    PROVE  coin \notin board /\ \E c \in listed : coin \in CoinsOf(c)
<1> DEFINE chosen == {c \in listed : c[1] \in up /\ c[2] > at /\ ~IsSettling(c, fixtures, at)}
<1>1. coin \in UNION {CoinsOf(c) : c \in chosen} /\ coin \notin board
  BY Zenon DEF Unwrapped
<1>2. PICK c \in chosen : coin \in CoinsOf(c)
  BY <1>1
<1> QED
  BY <1>1, <1>2

\* A sync keeps the invariant.
LEMMA SyncOK == ASSUME RegistryInv, Sync PROVE RegistryInv'
<1> USE DEF RegistryInv
<1>1. DOMAIN core \subseteq DOMAIN core' /\
      \A c \in DOMAIN core' : c \in Games \X Nat /\ core'[c] \in Contract
  BY SyncOnCore
<1>2. Coins \subseteq Coins'
  BY <1>1, CoinsStayKnown
<1>3. UNCHANGED <<now, espn, source, leg, file, newer, watch>>
  BY DEF Sync
<1>4. PICK todo \in SUBSET (Coins' \ file.markets), write \in BOOLEAN :
        job' = [step |-> "wrap", kept |-> file.markets, archived |-> file.archived,
                write |-> write, failed |-> FALSE, todo |-> todo]
  <2>1. PICK up \in {Standalone, Games}, moved \in {FALSE, \E coin \in file.markets : coin[1][2] > now} :
          job' = [step |-> "wrap", kept |-> file.markets, archived |-> file.archived,
                  write |-> moved, failed |-> FALSE,
                  todo |-> Unwrapped({c \in DOMAIN core' : core'[c].pays = NoResult},
                                     up, Fixtures(up, now), now, file.markets)]
    <3> HIDE DEF RegistryInv
    <3> QED
      BY Zenon DEF Sync
  <2>2. moved \in BOOLEAN
    OBVIOUS
  <2>3. ASSUME NEW coin \in Unwrapped({c \in DOMAIN core' : core'[c].pays = NoResult},
                                      up, Fixtures(up, now), now, file.markets)
        PROVE  coin \in Coins' \ file.markets
    <3>1. coin \notin file.markets
      BY <2>3, UnwrappedIsNew
    <3>2. PICK c \in DOMAIN core' : coin \in CoinsOf(c)
      BY <2>3, UnwrappedIsNew
    <3>3. CoinsOf(c) = CoinsOf(c)'
      BY DEF CoinsOf
    <3>4. coin \in Coins'
      BY <3>2, <3>3 DEF Coins
    <3> QED
      BY <3>1, <3>4
  <2>4. Unwrapped({c \in DOMAIN core' : core'[c].pays = NoResult},
                  up, Fixtures(up, now), now, file.markets) \subseteq Coins' \ file.markets
    BY <2>3, Zenon
  <2> HIDE DEF RegistryInv
  <2> QED
    BY <2>1, <2>2, <2>4
<1>5. TypeOK'
  <2>1. \A c \in DOMAIN core' : c \in Games \X Nat /\
           core'[c] \in [venue : Venues, pays : Sides \cup {NoResult},
                         told : Sides \cup {NoResult}, due : BOOLEAN]
    BY <1>1 DEF Contract
  <2>2. DOMAIN source \subseteq UNION {CoinsOf(c) : c \in DOMAIN core'}
    BY <1>2 DEF TypeOK, Coins, CoinsOf
  <2>3. job'.step \in {"asleep", "wrap", "rotate", "deploy", "restart"}
    BY <1>4
  <2> QED
    BY <1>3, <2>1, <2>2, <2>3 DEF TypeOK
<1>6. JobOK'
  <2>1. file.markets \subseteq DOMAIN leg' /\ file.archived \subseteq DOMAIN leg'
    BY <1>3 DEF TypeOK
  <2>2. job'.todo \subseteq Coins'
    BY <1>4
  <2> QED
    BY <1>4, <2>1, <2>2 DEF JobOK, Steps
<1>7. RunOK'
  <2>1. file.whole
    BY DEF Sync
  <2>2. job'.todo \cap file.markets = {} /\ job'.kept = file.markets /\ job'.archived = file.archived
    BY <1>4
  <2> QED
    BY <1>3, <2>1, <2>2 DEF RunOK
<1> QED
  BY <1>5, <1>6, <1>7

-----------------------------------------------------------------------------
(* Wrapping and writing. *)

\* A vault that is wrapped is of a known coin, which has no row yet.
LEMMA WrapOK == ASSUME RegistryInv, NEW coin \in job.todo, Wrap(coin) PROVE RegistryInv'
<1> USE DEF RegistryInv
<1>1. /\ UNCHANGED <<now, espn, core, file, newer, watch>>
      /\ job' = [job EXCEPT !.todo = @ \ {coin}, !.kept = @ \cup {coin}, !.write = TRUE]
      /\ Wrapping
  BY DEF Wrap, IsNext
<1>2. /\ DOMAIN leg' = DOMAIN leg \cup {coin} /\ DOMAIN source' = DOMAIN source \cup {coin}
      /\ \A c \in DOMAIN leg \ {coin} : leg'[c] = leg[c]
  BY DEF Wrap, Opened
<1>3. coin \in Coins
  BY DEF JobOK
<1>4. Coins' = Coins
  BY <1>1 DEF Coins, CoinsOf
<1>5. TypeOK'
  <2>1. DOMAIN leg' \subseteq DOMAIN source' /\
        DOMAIN source' \subseteq UNION {CoinsOf(c) : c \in DOMAIN core'}
    BY <1>1, <1>2, <1>3 DEF TypeOK, Coins, CoinsOf
  <2>2. file' \in [markets : SUBSET DOMAIN leg', archived : SUBSET DOMAIN leg', whole : BOOLEAN]
        /\ watch' \subseteq DOMAIN leg'
    BY <1>1, <1>2 DEF TypeOK
  <2>3. job'.step = job.step
    BY <1>1 DEF JobOK
  <2> QED
    BY <1>1, <2>1, <2>2, <2>3 DEF TypeOK
<1>6. JobOK'
  BY <1>1, <1>2, <1>4 DEF JobOK
<1>7. RunOK'
  <2>1. job'.todo \cap file'.markets = {} /\ file'.archived \subseteq job'.archived
    BY <1>1 DEF RunOK, JobOK
  <2>2. ASSUME NEW row \in file'.markets \ job'.kept
        PROVE  row \in job'.archived /\ (leg'[row] = "settled" \/ Expiry(row[1]) <= now')
    <3>1. row \in file.markets \ job.kept /\ row # coin /\ row \in DOMAIN leg
      BY <1>1 DEF JobOK, TypeOK
    <3>2. row \in job.archived /\ (leg[row] = "settled" \/ Expiry(row[1]) <= now)
      BY <1>1, <3>1 DEF RunOK
    <3>3. leg'[row] = leg[row] /\ job'.archived = job.archived /\ now' = now
      BY <1>1, <1>2, <3>1 DEF JobOK
    <3> QED
      BY <3>2, <3>3
  <2>3. file'.whole
    BY <1>1 DEF RunOK
  <2> QED
    BY <2>1, <2>2, <2>3 DEF RunOK
<1> QED
  BY <1>5, <1>6, <1>7

\* A deployment that fails ends the wrapping.
LEMMA WrapFailsOK == ASSUME RegistryInv, NEW coin \in job.todo, WrapFails(coin) PROVE RegistryInv'
<1> USE DEF RegistryInv
<1>1. /\ UNCHANGED <<now, espn, core, leg, file, newer, watch>>
      /\ job' = [job EXCEPT !.todo = {}, !.failed = TRUE]
      /\ Wrapping /\ source' \in {source, Opened(source, coin)}
  BY DEF WrapFails, IsNext
<1>2. DOMAIN source \subseteq DOMAIN source' /\ DOMAIN source' \subseteq DOMAIN source \cup {coin}
  BY <1>1 DEF Opened
<1>3. coin \in Coins
  BY DEF JobOK
<1>4. Coins' = Coins
  BY <1>1 DEF Coins, CoinsOf
<1>5. /\ job'.step = job.step /\ job'.kept = job.kept /\ job'.archived = job.archived
      /\ job'.todo = {}
  BY <1>1 DEF JobOK
<1>6. TypeOK'
  <2>1. DOMAIN leg' \subseteq DOMAIN source' /\
        DOMAIN source' \subseteq UNION {CoinsOf(c) : c \in DOMAIN core'}
    BY <1>1, <1>2, <1>3 DEF TypeOK, Coins, CoinsOf
  <2> QED
    BY <1>1, <1>5, <2>1 DEF TypeOK
<1>7. JobOK'
  BY <1>1, <1>4 DEF JobOK
<1>8. RunOK'
  BY <1>1, <1>5 DEF RunOK
<1> QED
  BY <1>6, <1>7, <1>8

\* Nothing is under way after a run, or between its programs.
LEMMA IdleOK ==
    ASSUME RegistryInv, UNCHANGED <<now, espn, core, source, leg>>,
           file' \in Files, newer' \in BOOLEAN, watch' \subseteq DOMAIN leg,
           NEW step \in Steps \ {"wrap", "deploy"}, job' = [Asleep EXCEPT !.step = step],
           step = "restart" => file'.whole
    PROVE  RegistryInv'
<1> USE DEF RegistryInv
<1>1. TypeOK'
  BY DEF TypeOK, Asleep, Steps, Files
<1>2. JobOK'
  BY DEF JobOK, Asleep, Steps
<1>3. RunOK'
  BY DEF RunOK, Wrapping, Asleep, Steps
<1> QED
  BY <1>1, <1>2, <1>3

\* The write leaves a file of rows that have a leg.
LEMMA WriteOK == ASSUME RegistryInv, Write PROVE RegistryInv'
<1>1. UNCHANGED <<now, espn, core, source, leg, watch>>
  BY DEF Write
<1>2. file' \in Files /\ file'.whole
  <2>1. CASE job.write
    BY <2>1 DEF Write, RegistryInv, JobOK, Files
  <2>2. CASE ~job.write
    BY <2>2 DEF Write, RegistryInv, TypeOK, RunOK, Files
  <2> QED
    BY <2>1, <2>2
<1>3. newer' \in BOOLEAN
  BY DEF Write, RegistryInv, TypeOK, JobOK
<1>4. watch' \subseteq DOMAIN leg
  BY <1>1 DEF RegistryInv, TypeOK
<1>5. PICK step \in Steps \ {"wrap", "deploy"} : job' = [Asleep EXCEPT !.step = step]
  <2>1. CASE job.step = "wrap"
    BY <2>1 DEF Write, Asleep, Steps
  <2>2. CASE job.step # "wrap" /\ job.failed
    <3>1. job' = [Asleep EXCEPT !.step = "asleep"]
      BY <2>2 DEF Write, Asleep
    <3> QED
      BY <3>1 DEF Steps
  <2>3. CASE job.step # "wrap" /\ ~job.failed
    BY <2>3 DEF Write, Asleep, Steps
  <2> QED
    BY <2>1, <2>2, <2>3
<1> QED
  BY <1>1, <1>2, <1>3, <1>4, <1>5, IdleOK

\* What a write leaves that is cut is not read again.
LEMMA WriteCutOK == ASSUME RegistryInv, WriteCut PROVE RegistryInv'
<1>1. UNCHANGED <<now, espn, core, source, leg, watch>>
  BY DEF WriteCut
<1>2. file' \in Files /\ newer' \in BOOLEAN
  BY DEF WriteCut, Torn, Files
<1>3. watch' \subseteq DOMAIN leg
  BY <1>1 DEF RegistryInv, TypeOK
<1>4. PICK step \in {"asleep", "rotate"} : job' = [Asleep EXCEPT !.step = step]
  <2>1. Asleep = [Asleep EXCEPT !.step = "asleep"]
    BY DEF Asleep
  <2> QED
    BY <2>1 DEF WriteCut
<1>5. step \in Steps \ {"wrap", "deploy"} /\ step # "restart"
  BY DEF Steps
<1> QED
  BY <1>1, <1>2, <1>3, <1>4, <1>5, IdleOK

-----------------------------------------------------------------------------
(* The rotation. *)

\* A row that retires is done, or its deadline has passed, and what the
\* rotation wraps has no row.
LEMMA RotateOK == ASSUME RegistryInv, Rotate PROVE RegistryInv'
<1> USE DEF RegistryInv
<1>1. UNCHANGED <<now, espn, core, source, leg, file, newer, watch>>
  BY DEF Rotate
<1>2. PICK retired \in Retirable, picks \in SUBSET Pickable :
        job' = [step |-> "deploy", todo |-> UNION {CoinsOf(c) : c \in picks},
                kept |-> file.markets \ retired, archived |-> file.archived \cup retired,
                write |-> retired # {} \/ picks # {}, failed |-> FALSE]
  BY Zenon DEF Rotate
<1>3. UNION {CoinsOf(c) : c \in picks} \subseteq Coins \ file.markets
  <2>1. \A c \in picks : c \in DOMAIN core /\ CoinsOf(c) \cap file.markets = {}
    BY DEF Pickable, Listed
  <2> QED
    BY <2>1 DEF Coins
<1>4. /\ retired \subseteq file.markets
      /\ \A coin \in retired : Done(coin) \/ ~(Expiry(coin[1]) > now)
  BY Zenon DEF Retirable
<1>5. \A coin \in file.markets : coin \in Coins /\ coin \in DOMAIN leg
  BY LegsAreKnown DEF TypeOK
<1>6. \A coin \in retired : leg[coin] = "settled" \/ Expiry(coin[1]) <= now
  <2>1. ASSUME NEW coin \in retired PROVE Expiry(coin[1]) \in Int /\ coin \in DOMAIN leg
    BY <1>4, <1>5, CoinsAreKnown
  <2>2. now \in Int
    BY RegistryAssumption DEF TypeOK
  <2>3. \A coin \in retired : Done(coin) => leg[coin] = "settled"
    BY <2>1 DEF Done, Status
  <2> QED
    BY <1>4, <2>1, <2>2, <2>3
<1>7. Coins' = Coins
  BY <1>1 DEF Coins, CoinsOf
<1>8. TypeOK'
  BY <1>1, <1>2 DEF TypeOK
<1>9. JobOK'
  <2>1. retired \subseteq DOMAIN leg /\ file.markets \subseteq DOMAIN leg /\ file.archived \subseteq DOMAIN leg
    BY <1>4 DEF TypeOK
  <2>2. (retired # {} \/ picks # {}) \in BOOLEAN
    OBVIOUS
  <2> QED
    BY <1>1, <1>2, <1>3, <1>7, <2>1, <2>2 DEF JobOK, Steps
<1>10. RunOK'
  <2>1. file' = file /\ leg' = leg /\ now' = now
    BY <1>1
  <2>2. job'.todo \cap file.markets = {} /\ file.archived \subseteq job'.archived
    BY <1>2, <1>3
  <2>3. \A coin \in file.markets \ job'.kept : coin \in retired /\ coin \in job'.archived
    BY <1>2
  <2>4. file.whole
    BY DEF Rotate
  <2> QED
    BY <1>6, <2>1, <2>2, <2>3, <2>4 DEF RunOK
<1> QED
  BY <1>8, <1>9, <1>10

-----------------------------------------------------------------------------
(* The world and the keeper. *)

\* Time passes, and ESPN changes its mind, between runs or beside them.
LEMMA WorldOK ==
    ASSUME RegistryInv, Tick \/ \E g \in Games : Move(g) \/ End(g) PROVE RegistryInv'
<1> USE DEF RegistryInv
<1>1. UNCHANGED <<core, source, leg, file, newer, watch, job>>
  BY DEF Tick, Move, End
<1>2. now' \in 0..MaxTime
  <2>1. MaxTime \in Nat
    BY RegistryAssumption
  <2>2. CASE Tick
    BY <2>1, <2>2 DEF TypeOK, Tick
  <2>3. CASE now' = now
    BY <2>3 DEF TypeOK
  <2> QED
    BY <2>2, <2>3 DEF Move, End
<1>3. espn' \in [Games -> [kickoff : Nat, final : Sides \cup {NoResult}, moved : BOOLEAN]]
  <2>1. CASE Tick
    BY <2>1 DEF Tick, TypeOK
  <2>2. ASSUME NEW g \in Games, Move(g) PROVE <1>3
    BY <2>2, PlanAssumption DEF Move, TypeOK
  <2>3. ASSUME NEW g \in Games, End(g) PROVE <1>3
    BY <2>3 DEF End, TypeOK
  <2> QED
    BY <2>1, <2>2, <2>3
<1>4. TypeOK'
  BY <1>1, <1>2, <1>3 DEF TypeOK, CoinsOf
<1>5. JobOK'
  BY <1>1 DEF JobOK, Coins, CoinsOf
<1>6. RunOK'
  <2>1. Wrapping => now' = now
    BY DEF Tick, Move, End, Wrapping
  <2> QED
    BY <1>1, <2>1 DEF RunOK, Wrapping
<1> QED
  BY <1>4, <1>5, <1>6

\* The keeper settles vaults and legs that are there.
LEMMA SettleOK ==
    ASSUME RegistryInv, NEW coin \in watch, SettleVault(coin) \/ Relay(coin) PROVE RegistryInv'
<1> USE DEF RegistryInv
<1>1. UNCHANGED <<now, espn, core, file, newer, watch, job>>
  BY DEF SettleVault, Relay
<1>2. /\ DOMAIN source' = DOMAIN source /\ DOMAIN leg' = DOMAIN leg
      /\ \A c \in DOMAIN leg : leg'[c] = leg[c] \/ leg'[c] = "settled"
  BY DEF SettleVault, Relay
<1>3. TypeOK'
  BY <1>1, <1>2 DEF TypeOK, CoinsOf
<1>4. JobOK'
  BY <1>1, <1>2 DEF JobOK, Coins, CoinsOf
<1>5. RunOK'
  <2>1. \A c \in file.markets : c \in DOMAIN leg
    BY DEF TypeOK
  <2> QED
    BY <1>1, <1>2, <2>1 DEF RunOK, Wrapping
<1> QED
  BY <1>3, <1>4, <1>5

-----------------------------------------------------------------------------
(* Every step, and the theorems. *)

\* A run that ends, is killed or skips its sync, and a keeper that restarts.
LEMMA RunOver ==
    ASSUME RegistryInv, SyncFails \/ Killed \/ Restart \/ KeeperRestarts PROVE RegistryInv'
<1>1. UNCHANGED <<now, espn, core, source, leg, file>>
  BY DEF SyncFails, Killed, Restart, KeeperRestarts
<1>2. /\ file' \in Files
      /\ newer' \in BOOLEAN /\ watch' \subseteq DOMAIN leg
  BY <1>1 DEF SyncFails, Killed, Restart, KeeperRestarts, RegistryInv, TypeOK, Files
<1>3. CASE Killed \/ Restart
  <2>1. PICK step \in {"asleep", "rotate"} : job' = [Asleep EXCEPT !.step = step]
    <3>1. Asleep = [Asleep EXCEPT !.step = "asleep"]
      BY DEF Asleep
    <3>2. job' = [Asleep EXCEPT !.step = "asleep"] \/ job' = [Asleep EXCEPT !.step = "rotate"]
      BY <1>3, <3>1 DEF Killed, Restart
    <3> QED
      BY <3>2
  <2>2. step \in Steps \ {"wrap", "deploy"} /\ step # "restart"
    BY DEF Steps
  <2> QED
    BY <1>1, <1>2, <2>1, <2>2, IdleOK
<1>4. CASE SyncFails
  <2>1. job' = [job EXCEPT !.step = "rotate"]
    BY <1>4 DEF SyncFails
  <2>2. JobOK' /\ job'.step = "rotate"
    BY <1>1, <2>1 DEF RegistryInv, JobOK, Steps, Coins, CoinsOf
  <2>3. TypeOK'
    BY <1>1, <1>2, <2>2 DEF RegistryInv, TypeOK, CoinsOf, Files
  <2>4. RunOK'
    BY <2>2 DEF RunOK, Wrapping
  <2> QED
    BY <2>2, <2>3, <2>4 DEF RegistryInv
<1>5. CASE KeeperRestarts
  <2>1. job' = job
    BY <1>5 DEF KeeperRestarts
  <2>2. JobOK' /\ RunOK'
    BY <1>1, <2>1 DEF RegistryInv, JobOK, RunOK, Wrapping, Coins, CoinsOf
  <2>3. TypeOK'
    BY <1>1, <1>2, <2>1 DEF RegistryInv, TypeOK, CoinsOf, Files
  <2> QED
    BY <2>2, <2>3 DEF RegistryInv
<1> QED
  BY <1>3, <1>4, <1>5

\* Every step keeps the invariant.
LEMMA StepOK == ASSUME RegistryInv, [Next]_vars PROVE RegistryInv'
<1>1. CASE Tick \/ \E g \in Games : Move(g) \/ End(g)
  BY <1>1, WorldOK
<1>2. CASE Sync
  BY <1>2, SyncOK
<1>3. CASE SyncFails \/ Killed \/ Restart \/ KeeperRestarts
  BY <1>3, RunOver
<1>4. CASE Write \/ WriteCut
  BY <1>4, WriteOK, WriteCutOK
<1>5. CASE Rotate
  BY <1>5, RotateOK
<1>6. ASSUME NEW coin \in job.todo, Wrap(coin) \/ WrapFails(coin) PROVE RegistryInv'
  BY <1>6, WrapOK, WrapFailsOK
<1>7. ASSUME NEW coin \in watch, SettleVault(coin) \/ Relay(coin) PROVE RegistryInv'
  BY <1>7, SettleOK
<1>8. CASE UNCHANGED vars
  BY <1>8 DEF vars, RegistryInv, TypeOK, JobOK, RunOK, Wrapping, Coins, CoinsOf
<1> QED
  BY <1>1, <1>2, <1>3, <1>4, <1>5, <1>6, <1>7, <1>8 DEF Next

\* The types: every leg stands over a vault of a contract that Core knows, every
\* row of the file has a leg, and the keeper watches nothing else.
THEOREM TypeCorrect == Spec => []TypeOK
<1>1. RegistryInv => TypeOK
  BY DEF RegistryInv
<1> QED
  BY <1>1, InitOK, StepOK, PTL DEF Spec

\* Every write that comes to its end loses no row, and takes none off the board
\* before its leg settled or its deadline passed; nothing is registered, settled
\* or written from a file that is cut.
THEOREM RowsStayListed == Spec => OpenLegsStayListed
<1>1. ASSUME RegistryInv, [Next]_vars
      PROVE  [ /\ file'.whole => RowsAreKept
               /\ ~file.whole => UNCHANGED <<file, core>> ]_vars
  <2>1. CASE file' = file
    <3>1. RowsAreKept
      BY <2>1 DEF RowsAreKept
    <3>2. core' # core => Sync
      BY <1>1 DEF Next, vars, Tick, Move, End, SyncFails, Killed, Rotate, Restart,
                  KeeperRestarts, Wrap, WrapFails, SettleVault, Relay, Write, WriteCut
    <3>3. ~file.whole => core' = core
      BY <3>2 DEF Sync
    <3> QED
      BY <2>1, <3>1, <3>3
  <2>2. CASE file' # file
    <3>1. Write \/ WriteCut
      BY <1>1, <2>2 DEF Next, vars, Tick, Move, End, Sync, SyncFails, Killed, Rotate, Restart,
                        KeeperRestarts, Wrap, WrapFails, SettleVault, Relay
    <3>2. Wrapping
      BY <3>1 DEF Write, WriteCut
    <3>3. file.whole
      BY <1>1, <3>2 DEF RegistryInv, RunOK
    <3>4. CASE Write
      <4>1. file' = [markets |-> job.kept, archived |-> job.archived, whole |-> TRUE]
        BY <2>2, <3>4 DEF Write
      <4>2. RowsAreKept
        BY <1>1, <3>2, <4>1 DEF RegistryInv, RunOK, RowsAreKept
      <4> QED
        BY <3>3, <4>2
    <3>5. CASE WriteCut
      <4>1. file'.whole = FALSE
        BY <3>5 DEF WriteCut, Torn
      <4> QED
        BY <3>3, <4>1
    <3> QED
      BY <3>1, <3>4, <3>5
  <2> QED
    BY <2>1, <2>2
<1> QED
  BY <1>1, InitOK, StepOK, PTL DEF Spec, OpenLegsStayListed

\* What Core was told is what ESPN reported, or a draw after the deadline.
THEOREM CoreIsToldResults == Spec => []ResultsAreReported
<1>1. Init => ResultsAreReported
  BY DEF Init, ResultsAreReported
<1>2. ASSUME RegistryInv, ResultsAreReported, [Next]_vars PROVE ResultsAreReported'
  <2>1. CASE Sync
    <3>1. ASSUME NEW c \in DOMAIN core', core'[c].pays # NoResult
          PROVE  \/ core'[c].pays = core'[c].told
                 \/ /\ core'[c].pays = "draw" /\ core'[c].due
                    /\ c[1] \in Matches => core'[c].told = NoResult
      <4>1. TypeOK
        BY <1>2 DEF RegistryInv
      <4>2. CASE c \in DOMAIN core /\ core'[c] = core[c]
        BY <1>2, <3>1, <4>2, Zenon DEF ResultsAreReported, Listed
      <4> QED
        BY <2>1, <3>1, <4>1, <4>2, SyncOnCore, Zenon
    <3> QED
      BY <3>1, Zenon DEF ResultsAreReported, Listed
  <2>2. CASE core' = core
    BY <1>2, <2>2 DEF ResultsAreReported, Listed
  <2>3. Sync \/ core' = core
    BY <1>2 DEF Next, vars, Tick, Move, End, SyncFails, Killed, Rotate, Restart,
                KeeperRestarts, Wrap, WrapFails, SettleVault, Relay, Write, WriteCut
  <2> QED
    BY <2>1, <2>2, <2>3
<1> QED
  BY <1>1, <1>2, InitOK, StepOK, PTL DEF Spec
-----------------------------------------------------------------------------
(***************************************************************************)
(* What contracts take of a venue.  The sum over a finite set, as FoldSet  *)
(* computes it: one element, the first, at a time.                         *)
(***************************************************************************)
First(s) == CHOOSE x \in s : TRUE

\* f[s] is what the contracts of s take, for the subsets s of S.
Takes(f, S) ==
    f = [s \in SUBSET S |-> IF s = {} THEN 0 ELSE f[s \ {First(s)}] + Slots(First(s))]

\* A set of naturals that holds 0, and the next of each, holds them all.
LEMMA SetInduction ==
    ASSUME NEW S, 0 \in S, \A n \in Nat : n \in S => n + 1 \in S
    PROVE  Nat \subseteq S
<1>1. SUFFICES ASSUME Nat \ S # {} PROVE FALSE
  OBVIOUS
<1>2. PICK R : R = OpToRel(<, Nat) /\ IsWellFoundedOn(R, Nat)
  BY NatLessThanWellFounded
<1>3. PICK x \in Nat \ S : \A y \in Nat \ S : ~(<<y, x>> \in R)
  BY <1>1, <1>2, WFMin
<1>4. x # 0 /\ x - 1 \in Nat
  BY <1>3
<1>5. x - 1 \notin S
  BY <1>3, <1>4
<1>6. <<x - 1, x>> \in R
  BY <1>2, <1>3, <1>4 DEF OpToRel
<1> QED
  BY <1>3, <1>4, <1>5, <1>6

\* The first of a finite set is a member, and there is one less without it.
LEMMA FirstIsMember ==
    ASSUME NEW S, IsFiniteSet(S), NEW s \in SUBSET S, s # {}
    PROVE  /\ First(s) \in s /\ s \ {First(s)} \in SUBSET S
           /\ IsFiniteSet(s) /\ Cardinality(s) \in Nat \ {0}
           /\ Cardinality(s \ {First(s)}) \in Nat
           /\ Cardinality(s \ {First(s)}) = Cardinality(s) - 1
<1>1. First(s) \in s
  BY DEF First
<1>2. IsFiniteSet(s) /\ Cardinality(s) \in Nat
  BY FS_Subset, FS_CardinalityType
<1>3. Cardinality(s) # 0
  BY <1>2, FS_EmptySet
<1>4. Cardinality(s \ {First(s)}) = Cardinality(s) - 1
  BY <1>1, <1>2, FS_RemoveElement
<1> QED
  BY <1>1, <1>2, <1>3, <1>4

\* A family of subsets that has the empty set, and each set with all but its first
\* element, has them all.
LEMMA FirstInduction ==
    ASSUME NEW S, IsFiniteSet(S), NEW P, {} \in P,
           \A s \in SUBSET S : s # {} /\ s \ {First(s)} \in P => s \in P
    PROVE  SUBSET S \subseteq P
<1> DEFINE N == {n \in Nat : \A s \in SUBSET S : Cardinality(s) = n => s \in P}
<1>1. 0 \in N
  <2>1. \A s \in SUBSET S : Cardinality(s) = 0 => s = {}
    BY FS_Subset, FS_EmptySet
  <2> QED
    BY <2>1
<1>2. ASSUME NEW n \in Nat, n \in N
      PROVE  n + 1 \in N
  <2>1. ASSUME NEW s \in SUBSET S, Cardinality(s) = n + 1
        PROVE  s \in P
    <3>1. s # {}
      BY <2>1, FS_EmptySet
    <3>2. s \ {First(s)} \in SUBSET S /\ Cardinality(s \ {First(s)}) = n
      BY <2>1, <3>1, FirstIsMember
    <3>3. s \ {First(s)} \in P
      BY <1>2, <3>2
    <3> QED
      BY <3>1, <3>3
  <2> QED
    BY <2>1
<1>3. Nat \subseteq N
  <2> HIDE DEF N
  <2> QED
    BY <1>1, <1>2, SetInduction
<1>4. \A s \in SUBSET S : Cardinality(s) \in Nat
  BY FS_Subset, FS_CardinalityType
<1> QED
  BY <1>3, <1>4

\* Such a function exists: the first n + 1 sizes of sets follow from the first n.
LEMMA TakesExists ==
    ASSUME NEW S, IsFiniteSet(S)
    PROVE  \E f : Takes(f, S)
<1> DEFINE Size(f, s) == IF s = {} THEN 0 ELSE f[s \ {First(s)}] + Slots(First(s))
           UpTo(f, n) == \A s \in SUBSET S : Cardinality(s) <= n => f[s] = Size(f, s)
           N == {n \in Nat : \E f : UpTo(f, n)}
<1>1. 0 \in N
  <2>1. \A s \in SUBSET S : Cardinality(s) \in Nat /\ (Cardinality(s) = 0 => s = {})
    BY FS_Subset, FS_EmptySet, FS_CardinalityType
  <2> DEFINE f == [s \in SUBSET S |-> 0]
  <2>2. \A s \in SUBSET S : Cardinality(s) <= 0 => s = {}
    BY <2>1
  <2>3. UpTo(f, 0)
    BY <2>2
  <2> HIDE DEF f
  <2> QED
    BY <2>3
<1>2. ASSUME NEW n \in Nat, n \in N
      PROVE  n + 1 \in N
  <2>1. PICK f : UpTo(f, n)
    BY <1>2
  <2> DEFINE g == [s \in SUBSET S |-> IF Cardinality(s) <= n THEN f[s] ELSE Size(f, s)]
  <2>2. ASSUME NEW s \in SUBSET S, Cardinality(s) <= n + 1
        PROVE  g[s] = Size(g, s)
    <3>1. CASE s = {}
      <4>1. Cardinality(s) = 0
        BY <3>1, FS_EmptySet
      <4>2. Cardinality(s) <= n
        BY <4>1
      <4>3. f[s] = Size(f, s)
        BY <2>1, <4>2
      <4>4. g[s] = f[s]
        BY <4>2
      <4> QED
        BY <3>1, <4>3, <4>4
    <3>2. CASE s # {}
      <4> DEFINE r == s \ {First(s)}
      <4>1. r \in SUBSET S /\ Cardinality(s) \in Nat /\ Cardinality(r) = Cardinality(s) - 1
        BY <3>2, FirstIsMember
      <4> HIDE DEF r
      <4>2. g[r] = f[r]
        BY <2>2, <4>1
      <4>3. g[s] = Size(f, s)
        BY <2>1
      <4>4. Size(f, s) = f[r] + Slots(First(s)) /\ Size(g, s) = g[r] + Slots(First(s))
        BY <3>2 DEF r
      <4> QED
        BY <4>2, <4>3, <4>4
    <3> QED
      BY <3>1, <3>2
  <2>3. UpTo(g, n + 1)
    BY <2>2
  <2> HIDE DEF g, Size
  <2>4. \E x : UpTo(x, n + 1)
    BY <2>3, Zenon
  <2> QED
    BY <2>4
<1>3. Nat \subseteq N
  <2> HIDE DEF N
  <2> QED
    BY <1>1, <1>2, SetInduction
<1>4. Cardinality(S) \in Nat /\ \A s \in SUBSET S : Cardinality(s) <= Cardinality(S)
  BY FS_Subset, FS_CardinalityType
<1>5. PICK f : UpTo(f, Cardinality(S))
  BY <1>3, <1>4
<1> DEFINE h == [s \in SUBSET S |-> f[s]]
<1>6. \A s \in SUBSET S : f[s] = Size(f, s)
  BY <1>4, <1>5
<1>7. \A s \in SUBSET S : s # {} => s \ {First(s)} \in SUBSET S
  OBVIOUS
<1>8. h = [s \in SUBSET S |-> IF s = {} THEN 0 ELSE h[s \ {First(s)}] + Slots(First(s))]
  BY <1>6, <1>7
<1> QED
  BY <1>8 DEF Takes

\* What it says of one set.
LEMMA TakesStep ==
    ASSUME NEW S, NEW f, Takes(f, S)
    PROVE  /\ f[{}] = 0
           /\ \A s \in SUBSET S : s # {} => f[s] = f[s \ {First(s)}] + Slots(First(s))
<1> DEFINE F(g) == [s \in SUBSET S |-> IF s = {} THEN 0 ELSE g[s \ {First(s)}] + Slots(First(s))]
<1>1. f = F(f)
  BY DEF Takes
<1>2. \A s \in SUBSET S : F(f)[s] = IF s = {} THEN 0 ELSE f[s \ {First(s)}] + Slots(First(s))
  OBVIOUS
<1> HIDE DEF F
<1>3. \A s \in SUBSET S : f[s] = IF s = {} THEN 0 ELSE f[s \ {First(s)}] + Slots(First(s))
  BY <1>1, <1>2
<1> QED
  BY <1>3

\* Taken is such a function's value.
LEMMA TakenIs ==
    ASSUME NEW S, IsFiniteSet(S)
    PROVE  \E f : Takes(f, S) /\ Taken(S) = f[S]
<1>1. Taken(S) = (CHOOSE f : Takes(f, S))[S]
  BY DEF Taken, FoldSet, MapThenFoldSet, First, Takes
<1>2. Takes(CHOOSE f : Takes(f, S), S)
  BY TakesExists, Zenon
<1> QED
  BY <1>1, <1>2

\* Taken, one element at a time.
LEMMA TakenStep ==
    ASSUME NEW S, IsFiniteSet(S)
    PROVE  /\ S = {} => Taken(S) = 0
           /\ S # {} => Taken(S) = Taken(S \ {First(S)}) + Slots(First(S))
<1>1. PICK f : Takes(f, S) /\ Taken(S) = f[S]
  BY TakenIs
<1>2. CASE S = {}
  BY <1>1, <1>2, TakesStep
<1>3. CASE S # {}
  <2> DEFINE T == S \ {First(S)}
  <2>1. T \in SUBSET S /\ IsFiniteSet(T)
    BY FS_Subset
  <2>2. f[S] = f[T] + Slots(First(S))
    BY <1>1, <1>3, TakesStep
  <2> HIDE DEF T
  <2>3. PICK g : Takes(g, T) /\ Taken(T) = g[T]
    BY <2>1, TakenIs
  <2> DEFINE P == {s \in SUBSET T : f[s] = g[s]}
  <2>4. {} \in P
    BY <1>1, <2>3, TakesStep
  <2>5. ASSUME NEW s \in SUBSET T, s # {}, s \ {First(s)} \in P
        PROVE  s \in P
    <3>1. f[s] = f[s \ {First(s)}] + Slots(First(s))
      BY <1>1, <2>1, <2>5, TakesStep
    <3>2. g[s] = g[s \ {First(s)}] + Slots(First(s))
      BY <2>3, <2>5, TakesStep
    <3> QED
      BY <2>5, <3>1, <3>2
  <2>6. SUBSET T \subseteq P
    <3> HIDE DEF P
    <3> QED
      BY <2>1, <2>4, <2>5, FirstInduction
  <2>7. f[T] = g[T]
    BY <2>6
  <2> QED
    BY <1>1, <1>3, <2>2, <2>3, <2>7 DEF T
<1> QED
  BY <1>2, <1>3

\* No contracts take nothing.
LEMMA NoneTaken == Taken({}) = 0
<1>1. IsFiniteSet({})
  BY FS_EmptySet
<1> QED
  BY <1>1, TakenStep

\* A contract takes a whole number of places, at least one.
LEMMA SlotsOK == \A c : Slots(c) \in Nat \ {0} /\ Cardinality(Sides) \in Nat
BY PlanAssumption, FS_CardinalityType DEF Slots

\* So do contracts together.
LEMMA TakenNat == ASSUME NEW S, IsFiniteSet(S) PROVE Taken(S) \in Nat
<1> DEFINE P == {s \in SUBSET S : Taken(s) \in Nat}
<1>1. {} \in P
  BY NoneTaken, FS_EmptySet
<1>2. ASSUME NEW s \in SUBSET S, s # {}, s \ {First(s)} \in P
      PROVE  s \in P
  <2>1. Taken(s) = Taken(s \ {First(s)}) + Slots(First(s))
    BY <1>2, TakenStep, FS_Subset
  <2>2. Slots(First(s)) \in Nat
    BY SlotsOK
  <2> QED
    BY <1>2, <2>1, <2>2
<1>3. SUBSET S \subseteq P
  <2> HIDE DEF P
  <2> QED
    BY <1>1, <1>2, FirstInduction
<1> QED
  BY <1>3

\* Any of them may be counted last: by induction on how many there are.
LEMMA TakenRemove ==
    ASSUME NEW S, IsFiniteSet(S), NEW x \in S
    PROVE  Taken(S) = Taken(S \ {x}) + Slots(x)
<1> DEFINE Any(s) == \A y \in s : Taken(s) = Taken(s \ {y}) + Slots(y)
           N == {n \in Nat : \A s \in SUBSET S : Cardinality(s) = n => Any(s)}
<1>1. 0 \in N
  <2>1. \A s \in SUBSET S : Cardinality(s) = 0 => s = {}
    BY FS_Subset, FS_EmptySet
  <2> QED
    BY <2>1
<1>2. ASSUME NEW n \in Nat, n \in N
      PROVE  n + 1 \in N
  <2>1. ASSUME NEW s \in SUBSET S, Cardinality(s) = n + 1, NEW y \in s
        PROVE  Taken(s) = Taken(s \ {y}) + Slots(y)
    <3> DEFINE z == First(s)
               r == s \ {z}
               t == s \ {y}
               q == t \ {z}
    <3>1. /\ z \in s /\ r \in SUBSET S /\ t \in SUBSET S
          /\ IsFiniteSet(s) /\ IsFiniteSet(r) /\ IsFiniteSet(t) /\ IsFiniteSet(q)
      <4>1. s # {}
        BY <2>1
      <4>2. z \in s /\ r \in SUBSET S /\ t \in SUBSET S /\ q \in SUBSET S
        BY <4>1, FirstIsMember
      <4> HIDE DEF z, r, t, q
      <4> QED
        BY <4>2, FS_Subset
    <3>2. Cardinality(r) = n /\ Cardinality(t) = n
      <4>1. Cardinality(r) = Cardinality(s) - 1
        BY <3>1, FS_RemoveElement
      <4>2. Cardinality(t) = Cardinality(s) - 1
        BY <3>1, FS_RemoveElement
      <4> HIDE DEF z, r, t, q
      <4> QED
        BY <2>1, <4>1, <4>2
    <3>3. Taken(s) = Taken(r) + Slots(z)
      BY <3>1, TakenStep
    <3>4. CASE z = y
      BY <3>3, <3>4
    <3>5. CASE z # y
      <4>1. Any(r) /\ Any(t)
        BY <1>2, <3>1, <3>2
      <4>2. r \ {y} = q /\ y \in r /\ z \in t
        BY <3>1, <3>5
      <4>3. Taken(r) = Taken(q) + Slots(y)
        BY <4>1, <4>2
      <4>4. Taken(t) = Taken(q) + Slots(z)
        BY <4>1, <4>2
      <4>5. Taken(q) \in Nat /\ Slots(y) \in Nat /\ Slots(z) \in Nat
        BY <3>1, TakenNat, SlotsOK
      <4> HIDE DEF z, r, t, q
      <4>6. Taken(s) = Taken(t) + Slots(y)
        BY <3>3, <4>3, <4>4, <4>5
      <4> QED
        BY <4>6 DEF t
    <3> QED
      BY <3>4, <3>5
  <2> QED
    BY <2>1
<1>3. Nat \subseteq N
  <2> HIDE DEF N
  <2> QED
    BY <1>1, <1>2, SetInduction
<1>4. Cardinality(S) \in Nat
  BY FS_CardinalityType
<1>5. Any(S)
  BY <1>3, <1>4
<1> QED
  BY <1>5

\* Contracts together take no more than they do apart.
LEMMA TakenUnion ==
    ASSUME NEW A, IsFiniteSet(A), NEW B, IsFiniteSet(B)
    PROVE  Taken(A \cup B) <= Taken(A) + Taken(B)
<1> DEFINE P == {s \in SUBSET B : Taken(A \cup s) <= Taken(A) + Taken(s)}
<1>1. \A s \in SUBSET B : /\ IsFiniteSet(s) /\ IsFiniteSet(A \cup s)
                          /\ Taken(A \cup s) \in Nat /\ Taken(s) \in Nat
  BY TakenNat, FS_Subset, FS_Union
<1>2. Taken(A) \in Nat
  BY TakenNat
<1>3. {} \in P
  <2>1. A \cup {} = A /\ Taken({}) = 0
    BY NoneTaken, FS_EmptySet
  <2> QED
    BY <1>2, <2>1
<1>4. ASSUME NEW s \in SUBSET B, s # {}, s \ {First(s)} \in P
      PROVE  s \in P
  <2> DEFINE y == First(s)
             r == s \ {y}
  <2>1. y \in s /\ r \in SUBSET B
    BY <1>4, FirstIsMember
  <2>2. Taken(s) = Taken(r) + Slots(y)
    BY <1>1, <1>4, TakenStep
  <2>3. Taken(A \cup r) <= Taken(A) + Taken(r)
    BY <1>4
  <2>4. Slots(y) \in Nat /\ Taken(r) \in Nat /\ Taken(s) \in Nat
        /\ Taken(A \cup s) \in Nat /\ Taken(A \cup r) \in Nat
    BY <1>1, <2>1, SlotsOK
  <2>5. Taken(A \cup s) <= Taken(A \cup r) + Slots(y)
    <3>1. CASE y \in A
      <4>1. A \cup s = A \cup r
        BY <2>1, <3>1
      <4> HIDE DEF y, r
      <4> QED
        BY <2>4, <4>1
    <3>2. CASE y \notin A
      <4>1. (A \cup s) \ {y} = A \cup r /\ y \in A \cup s
        BY <2>1, <3>2
      <4>2. Taken(A \cup s) = Taken((A \cup s) \ {y}) + Slots(y)
        BY <1>1, <4>1, TakenRemove
      <4> HIDE DEF y, r
      <4> QED
        BY <2>4, <4>1, <4>2
    <3> QED
      BY <3>1, <3>2
  <2> HIDE DEF y, r
  <2>6. Taken(A \cup s) <= Taken(A) + Taken(s)
    BY <1>2, <2>2, <2>3, <2>4, <2>5
  <2> QED
    BY <2>6
<1>5. SUBSET B \subseteq P
  <2> HIDE DEF P
  <2> QED
    BY <1>3, <1>4, FirstInduction
<1> QED
  BY <1>5

\* Fewer take no more.
LEMMA TakenMonotone ==
    ASSUME NEW B, IsFiniteSet(B), NEW A \in SUBSET B
    PROVE  Taken(A) <= Taken(B)
<1> DEFINE C == B \ A
           P == {s \in SUBSET C : Taken(A) <= Taken(A \cup s)}
<1>1. IsFiniteSet(C) /\ IsFiniteSet(A) /\ Taken(A) \in Nat
  BY FS_Subset, TakenNat
<1>2. {} \in P
  <2>1. A \cup {} = A
    OBVIOUS
  <2> QED
    BY <1>1, <2>1
<1>3. ASSUME NEW s \in SUBSET C, s # {}, s \ {First(s)} \in P
      PROVE  s \in P
  <2> DEFINE y == First(s)
             r == s \ {y}
  <2>1. y \in s
    BY <1>1, <1>3, FirstIsMember
  <2>2. IsFiniteSet(A \cup s) /\ IsFiniteSet(A \cup r)
    BY FS_Subset
  <2>3. (A \cup s) \ {y} = A \cup r /\ y \in A \cup s
    BY <2>1
  <2>4. Taken(A \cup s) = Taken((A \cup s) \ {y}) + Slots(y)
    BY <2>2, <2>3, TakenRemove
  <2>5. Slots(y) \in Nat /\ Taken(A \cup r) \in Nat /\ Taken(A) <= Taken(A \cup r)
    BY <1>3, <2>2, TakenNat, SlotsOK
  <2> HIDE DEF y, r
  <2>6. Taken(A) <= Taken(A \cup s)
    BY <1>1, <2>3, <2>4, <2>5
  <2> QED
    BY <2>6
<1>4. SUBSET C \subseteq P
  <2> HIDE DEF P
  <2> QED
    BY <1>1, <1>2, <1>3, FirstInduction
<1>5. A \cup C = B
  OBVIOUS
<1> HIDE DEF C
<1> QED
  BY <1>4, <1>5

\* n contracts of k places each take k * n at most.
LEMMA TakenUniform ==
    ASSUME NEW S, IsFiniteSet(S), NEW k \in Nat, \A c \in S : Slots(c) <= k
    PROVE  Taken(S) <= k * Cardinality(S)
<1> DEFINE P == {s \in SUBSET S : Taken(s) <= k * Cardinality(s)}
<1>1. {} \in P
  BY NoneTaken, FS_EmptySet
<1>2. ASSUME NEW s \in SUBSET S, s # {}, s \ {First(s)} \in P
      PROVE  s \in P
  <2> DEFINE y == First(s)
             r == s \ {y}
  <2>1. /\ y \in S /\ IsFiniteSet(s) /\ IsFiniteSet(r) /\ Cardinality(s) \in Nat
        /\ Cardinality(r) \in Nat /\ Cardinality(s) = Cardinality(r) + 1
    BY <1>2, FirstIsMember, FS_Subset
  <2>2. Taken(s) = Taken(r) + Slots(y)
    BY <1>2, <2>1, TakenStep
  <2>3. Taken(r) <= k * Cardinality(r) /\ Slots(y) <= k
    BY <1>2, <2>1
  <2>4. Taken(r) \in Nat /\ Slots(y) \in Nat
    BY <2>1, TakenNat, SlotsOK
  <2> HIDE DEF y, r
  <2>5. k * (Cardinality(r) + 1) = k * Cardinality(r) + k /\ k * Cardinality(r) \in Nat
    BY <2>1
  <2>6. Taken(s) <= k * Cardinality(s)
    BY <2>1, <2>2, <2>3, <2>4, <2>5
  <2> QED
    BY <2>6
<1>3. SUBSET S \subseteq P
  <2> HIDE DEF P
  <2> QED
    BY <1>1, <1>2, FirstInduction
<1> QED
  BY <1>3

-----------------------------------------------------------------------------
(* The plan's places. *)

\* No venue is given more than its room, nor all of them more than was asked.
LEMMA FilledOK ==
    ASSUME NEW room, room[1] \in Nat, room[2] \in Nat, NEW want \in Nat
    PROVE  /\ Filled(room, want)[1] \in 0..room[1] /\ Filled(room, want)[2] \in 0..room[2]
           /\ Both(Filled(room, want)) \in 0..want
<1> DEFINE one == Least(room[1], want)
           two == Least(room[2], want - one)
<1>1. one \in Nat /\ one <= room[1] /\ one <= want
  BY DEF Least
<1>2. want - one \in Nat
  BY <1>1
<1>3. two \in Nat /\ two <= room[2] /\ two <= want - one
  BY <1>2 DEF Least
<1>4. Filled(room, want) = <<one, two>>
  BY DEF Filled
<1> HIDE DEF one, two
<1> QED
  BY <1>1, <1>3, <1>4 DEF Both

\* A number of whole shares is no more than what is shared out.
LEMMA Shares ==
    ASSUME NEW n \in Nat, NEW k \in Nat \ {0}
    PROVE  n \div k \in Nat /\ k * (n \div k) <= n
OBVIOUS

\* The games and the questions that are given a place on a venue fit its room.
LEMMA PlacesFit ==
    ASSUME NEW held, \A v \in Venues : held[v] \in Nat,
           NEW listed \in Nat, NEW wanted \in Nat, NEW asked \in Nat, NEW v \in Venues
    PROVE  LET games == GamePlaces(held, listed, wanted)
               matches == QuestionPlaces(held, listed, games, asked)
           IN /\ games[v] \in Nat /\ matches[v] \in Nat
              /\ games[v] + (Cardinality(Sides) + 1) * matches[v] <= Free(held)[v]
<1> DEFINE games == GamePlaces(held, listed, wanted)
           left == [u \in Venues |-> Free(held)[u] - games[u]]
           kept == Filled(left, GameRoom(listed) - Both(games))
           k == Cardinality(Sides) + 1
           room == [u \in Venues |-> (left[u] - kept[u]) \div k]
           matches == Filled(room, asked)
<1>1. \A u \in Venues : Free(held)[u] \in Nat
  BY PlanAssumption DEF Free, Positive, Venues
<1>2. GameRoom(listed) \in Nat /\ Least(GameRoom(listed), wanted) \in Nat
      /\ Least(GameRoom(listed), wanted) <= GameRoom(listed)
  <2>1. GameRoom(listed) \in Nat
    BY PlanAssumption DEF GameRoom, Positive
  <2> QED
    BY <2>1 DEF Least
<1>3. k \in Nat \ {0}
  BY SlotsOK
<1>4. /\ \A u \in Venues : games[u] \in 0..Free(held)[u]
      /\ Both(games) \in 0..Least(GameRoom(listed), wanted)
  BY <1>1, <1>2, FilledOK DEF GamePlaces, Venues
<1>5. \A u \in Venues : left[u] \in Nat /\ left[u] = Free(held)[u] - games[u]
  <2> HIDE DEF games
  <2> QED
    BY <1>1, <1>4
<1>6. GameRoom(listed) - Both(games) \in Nat
  <2> HIDE DEF games
  <2> QED
    BY <1>2, <1>4
<1>7. \A u \in Venues : kept[u] \in 0..left[u]
  <2> HIDE DEF left, games
  <2> QED
    BY <1>5, <1>6, FilledOK DEF Venues
<1>8. \A u \in Venues : /\ room[u] \in Nat /\ k * room[u] <= left[u] - kept[u]
  <2> TAKE u \in Venues
  <2>1. PICK n \in Nat : n = left[u] - kept[u]
    <3> HIDE DEF left, kept
    <3> QED
      BY <1>5, <1>7
  <2>2. room[u] = n \div k
    <3> HIDE DEF left, kept, k
    <3> QED
      BY <2>1
  <2> HIDE DEF room, left, kept, k
  <2> QED
    BY <1>3, <2>1, <2>2, Shares
<1>9. matches[v] \in 0..room[v]
  <2> HIDE DEF room
  <2> QED
    BY <1>8, FilledOK DEF Venues
<1>10. matches = QuestionPlaces(held, listed, games, asked)
  BY DEF QuestionPlaces
<1>11. games[v] + k * matches[v] <= Free(held)[v]
  <2> HIDE DEF games, left, kept, k, room, matches
  <2>1. PICK m \in Nat, r \in Nat : m = matches[v] /\ r = room[v] /\ m <= r
    BY <1>8, <1>9
  <2>2. k * m <= k * r
    BY <1>3, <2>1
  <2>3. PICK km \in Int, kr \in Int : km = k * m /\ kr = k * r /\ km <= kr
    BY <1>3, <2>1, <2>2
  <2>4. kr <= left[v] - kept[v] /\ left[v] = Free(held)[v] - games[v] /\ kept[v] \in Nat
    BY <1>5, <1>7, <1>8, <2>1, <2>3
  <2>5. games[v] \in Nat /\ Free(held)[v] \in Nat
    BY <1>1, <1>4
  <2>6. games[v] + km <= Free(held)[v]
    BY <2>3, <2>4, <2>5
  <2> QED
    BY <2>1, <2>3, <2>6
<1> HIDE DEF games, left, kept, k, room, matches
<1> QED
  BY <1>4, <1>8, <1>9, <1>10, <1>11 DEF games, k

\* The contracts of the games that on puts on venue v
Chosen(games, on, v) == {g \in games : on[g] = v}
NewOn(games, fixtures, on, v) == {<<g, fixtures[g].kickoff>> : g \in Chosen(games, on, v)}

\* They take what the places of that venue allow.
LEMMA NewOnVenue ==
    ASSUME NEW games, IsFiniteSet(games), NEW fixtures, NEW on, NEW v,
           NEW k \in Nat, \A c : c[1] \in games => Slots(c) <= k,
           NEW p \in Nat, Cardinality(Chosen(games, on, v)) <= p
    PROVE  /\ IsFiniteSet(NewOn(games, fixtures, on, v))
           /\ Taken(NewOn(games, fixtures, on, v)) \in Nat
           /\ Taken(NewOn(games, fixtures, on, v)) <= k * p
           /\ p = 0 => NewOn(games, fixtures, on, v) = {}
<1> DEFINE some == Chosen(games, on, v)
           new == NewOn(games, fixtures, on, v)
           f == [g \in some |-> <<g, fixtures[g].kickoff>>]
<1>0. some \subseteq games
  BY DEF Chosen
<1>1. IsFiniteSet(some) /\ Cardinality(some) \in Nat /\ Cardinality(some) <= p
  BY <1>0, FS_Subset, FS_CardinalityType
<1>2. f \in Surjection(some, new)
  BY DEF Surjection, NewOn
<1>3. IsFiniteSet(new) /\ Cardinality(new) <= Cardinality(some)
  BY <1>1, <1>2, FS_Surjection
<1>4. \A c \in new : Slots(c) <= k
  BY <1>0 DEF NewOn
<1>5. p = 0 => new = {}
  <2>1. p = 0 => some = {}
    BY <1>1, FS_EmptySet
  <2> QED
    BY <2>1 DEF NewOn
<1> HIDE DEF new, some
<1>6. Taken(new) <= k * Cardinality(new) /\ Taken(new) \in Nat /\ Cardinality(new) \in Nat
  BY <1>3, <1>4, TakenUniform, TakenNat, FS_CardinalityType
<1>7. Taken(new) <= k * p
  <2>1. PICK n \in Nat : n = Cardinality(new) /\ n <= p
    BY <1>1, <1>3, <1>6
  <2>2. k * n <= k * p
    BY <2>1
  <2> QED
    BY <1>6, <2>1, <2>2
<1> QED
  BY <1>3, <1>5, <1>6, <1>7 DEF new

-----------------------------------------------------------------------------
(* The venues' budget. *)

\* What a sync settles is over, or past its deadline.
LEMMA SettlingIsOver ==
    ASSUME TypeOK, NEW up, NEW c \in Settling(up, Fixtures(up, now), now)
    PROVE  c \in Listed /\ ~(Expiry(c) > now /\ espn[c[1]].final = NoResult)
<1> DEFINE fixtures == Fixtures(up, now)
<1>1. c \in Listed /\ IsSettling(c, fixtures, now)
  BY DEF Settling
<1>2. c[2] \in Nat /\ Expiry(c) \in Int /\ now \in Int
  BY <1>1, PlanAssumption, RegistryAssumption DEF TypeOK, Listed, Expiry
<1>3. c[1] \in DOMAIN fixtures => fixtures[c[1]] = espn[c[1]]
  BY DEF Fixtures
<1>4. CASE Final(c, fixtures)
  <2>1. espn[c[1]].final # NoResult
    BY <1>3, <1>4 DEF Final, HasFixture
  <2> QED
    BY <1>1, <2>1
<1>5. CASE ~Final(c, fixtures)
  <2>1. Expiry(c) <= now
    BY <1>1, <1>5 DEF IsSettling
  <2> QED
    BY <1>1, <1>2, <2>1
<1> QED
  BY <1>4, <1>5

\* A sync on the venues: what is active on one after it was held there and is
\* not settled, or is new; and the new ones fit the places of the plan.
LEMMA SyncOnVenues ==
    ASSUME TypeOK, IsFiniteSet(DOMAIN core), Sync
    PROVE  /\ IsFiniteSet(DOMAIN core')
           /\ \A v \in Venues : \E places, A, B :
                 /\ places \in Nat /\ IsFiniteSet(A) /\ IsFiniteSet(B) /\ Active(v)' \subseteq A \cup B
                 /\ Taken(A) \in Nat /\ Taken(B) <= places
                 /\ places <= Positive(MaxActive - Taken(A))
                 /\ places = 0 => Active(v)' \subseteq Active(v)
<1> DEFINE Held1(up) == Held(Settling(up, Fixtures(up, now), now))
           Listed1(up) == Cardinality({c \in Listed \ Settling(up, Fixtures(up, now), now) :
                                          c[1] \in Standalone})
           Games1(up) == Wanted(Standalone, Fixtures(up, now), now)
           Matches1(up) == Wanted(Matches, Fixtures(up, now), now)
           GameP(up) == GamePlaces(Held1(up), Listed1(up), Cardinality(Games1(up)))
           MatchP(up) == QuestionPlaces(Held1(up), Listed1(up), GameP(up), Cardinality(Matches1(up)))
           Old(up, paid) == [c \in DOMAIN core |-> IF c \in paid
                      THEN [core[c] EXCEPT !.pays = Pays(c, Fixtures(up, now)),
                                           !.told = espn[c[1]].final, !.due = Expiry(c) <= now]
                      ELSE core[c]]
<1>a. PICK up \in {Standalone, Games} :
        \E paid \in SUBSET Settling(up, Fixtures(up, now), now),
           onGames \in Registrations(Games1(up), GameP(up)),
           onMatches \in Registrations(Matches1(up), MatchP(up)) :
             core' = Over(Registered(Over(onGames, onMatches), Fixtures(up, now)), Old(up, paid))
  BY Zenon DEF Sync
<1>b. PICK paid \in SUBSET Settling(up, Fixtures(up, now), now),
           onGames \in Registrations(Games1(up), GameP(up)),
           onMatches \in Registrations(Matches1(up), MatchP(up)) :
        core' = Over(Registered(Over(onGames, onMatches), Fixtures(up, now)), Old(up, paid))
  BY <1>a, Zenon
<1> DEFINE fixtures == Fixtures(up, now)
           settling == Settling(up, fixtures, now)
           games == Games1(up)
           matches == Matches1(up)
           on == Over(onGames, onMatches)
           new == Registered(on, fixtures)
           old == Old(up, paid)
           gp == GameP(up)
           mp == MatchP(up)
           k == Cardinality(Sides) + 1
           NewGames(v) == NewOn(games, fixtures, onGames, v)
           NewMatches(v) == NewOn(matches, fixtures, onMatches, v)
           Kept(v) == OnVenue(Listed \ settling, v)
<1>c. UNCHANGED <<now, espn>>
  BY DEF Sync
<1>1. /\ onGames \in [games -> Venues \cup {0}] /\ onMatches \in [matches -> Venues \cup {0}]
      /\ \A v \in Venues : /\ Cardinality(Chosen(games, onGames, v)) <= gp[v]
                           /\ Cardinality(Chosen(matches, onMatches, v)) <= mp[v]
  <2> HIDE DEF Games1, Matches1, GameP, MatchP
  <2> QED
    BY Zenon DEF Registrations, Chosen
<1>2. /\ DOMAIN core' = DOMAIN new \cup DOMAIN core
      /\ \A c \in DOMAIN new : core'[c] = new[c]
      /\ \A c \in DOMAIN core \ DOMAIN new : core'[c] = old[c]
  <2>1. core' = Over(new, old) /\ DOMAIN old = DOMAIN core
    BY <1>b
  <2> HIDE DEF new, old
  <2> QED
    BY <2>1 DEF Over
<1>3. /\ games \subseteq Standalone /\ matches \subseteq Matches
      /\ IsFiniteSet(games) /\ IsFiniteSet(matches) /\ IsFiniteSet(games \cup matches)
  <2>1. games \subseteq Standalone /\ matches \subseteq Matches
    BY DEF Wanted
  <2> HIDE DEF games, matches
  <2>2. IsFiniteSet(Standalone) /\ IsFiniteSet(Matches)
    BY PlanAssumption, FS_Subset DEF Games
  <2> QED
    BY <2>1, <2>2, FS_Subset, FS_Union
<1>4. /\ DOMAIN on = games \cup matches
      /\ \A g \in games : on[g] = onGames[g]
      /\ \A g \in matches : on[g] = onMatches[g]
  <2> HIDE DEF Games1, Matches1
  <2> QED
    BY <1>1, <1>3, PlanAssumption DEF Over
<1>5. IsFiniteSet(DOMAIN core')
  <2> DEFINE some == {g \in DOMAIN on : on[g] # 0}
             f == [g \in some |-> <<g, fixtures[g].kickoff>>]
  <2>1. IsFiniteSet(some)
    <3> HIDE DEF on, games, matches
    <3> QED
      BY <1>3, <1>4, FS_Subset
  <2>2. DOMAIN new = {<<g, fixtures[g].kickoff>> : g \in some}
    BY DEF Registered
  <2> HIDE DEF some, new
  <2>3. f \in Surjection(some, DOMAIN new)
    BY <2>2 DEF Surjection
  <2> HIDE DEF f
  <2>4. IsFiniteSet(DOMAIN new)
    BY <2>1, <2>3, FS_Surjection
  <2> QED
    BY <1>2, <2>4, FS_Union
<1>6. ASSUME NEW c \in DOMAIN new, NEW v \in Venues, new[c].venue = v
      PROVE  c \in NewGames(v) \cup NewMatches(v)
  <2>1. PICK g \in DOMAIN on : on[g] # 0 /\ c = <<g, fixtures[g].kickoff>>
    BY DEF Registered
  <2>2. new[c].venue = on[g]
    <3>1. c[1] = g
      BY <2>1
    <3> HIDE DEF on, fixtures
    <3> QED
      BY <3>1 DEF Registered
  <2> HIDE DEF on, new, fixtures, games, matches
  <2>3. (g \in games /\ onGames[g] = v) \/ (g \in matches /\ onMatches[g] = v)
    BY <1>4, <1>6, <2>2
  <2> QED
    BY <2>1, <2>3 DEF NewOn, Chosen
<1>7. ASSUME NEW v \in Venues, NEW c \in Active(v)', c \notin DOMAIN new
      PROVE  c \in Active(v) /\ c \in Kept(v)
  <2>1. /\ c \in DOMAIN core' /\ core'[c].pays = NoResult /\ core'[c].venue = v
        /\ Expiry(c) > now /\ espn[c[1]].final = NoResult
    BY <1>7, <1>c DEF Active, OnVenue, Listed
  <2>2. c \in DOMAIN core /\ core'[c] = old[c]
    <3> HIDE DEF new, old
    <3> QED
      BY <1>2, <1>7, <2>1
  <2>3. c \notin settling
    BY <2>1, SettlingIsOver
  <2>4. c \notin paid
    BY <2>3
  <2>5. old[c] = core[c]
    BY <2>2, <2>4
  <2> HIDE DEF old, settling, new
  <2>6. c \in OnVenue(Listed, v) /\ c \in OnVenue(Listed \ settling, v)
    BY <2>1, <2>2, <2>3, <2>5 DEF OnVenue, Listed
  <2> QED
    BY <2>1, <2>6 DEF Active
<1>8. \A v \in Venues : IsFiniteSet(Kept(v)) /\ Taken(Kept(v)) \in Nat /\ Held1(up)[v] = Taken(Kept(v))
  <2> TAKE v \in Venues
  <2>1. Kept(v) \subseteq DOMAIN core
    BY DEF OnVenue, Listed
  <2>2. Held1(up)[v] = Taken(Kept(v))
    BY DEF Held
  <2> HIDE DEF Kept, Held1
  <2> QED
    BY <2>1, <2>2, FS_Subset, TakenNat
<1>9. \A v \in Venues : /\ gp[v] \in Nat /\ mp[v] \in Nat
                        /\ gp[v] + k * mp[v] <= Free(Held1(up))[v]
  <2>1. Listed1(up) \in Nat
    <3>1. {c \in Listed \ settling : c[1] \in Standalone} \subseteq DOMAIN core
      BY DEF Listed
    <3> QED
      BY <3>1, FS_Subset, FS_CardinalityType
  <2>2. Cardinality(games) \in Nat /\ Cardinality(matches) \in Nat
    BY <1>3, FS_CardinalityType
  <2>3. \A v \in Venues : Held1(up)[v] \in Nat
    BY <1>8
  <2> HIDE DEF Held1, Listed1, Games1, Matches1
  <2> QED
    BY <2>1, <2>2, <2>3, PlacesFit
<1>10. k \in Nat \ {0}
  BY SlotsOK
<1>11. ASSUME NEW v \in Venues
       PROVE  /\ IsFiniteSet(NewGames(v)) /\ IsFiniteSet(NewMatches(v))
              /\ Taken(NewGames(v)) \in Nat /\ Taken(NewGames(v)) <= gp[v]
              /\ Taken(NewMatches(v)) \in Nat /\ Taken(NewMatches(v)) <= k * mp[v]
              /\ gp[v] = 0 => NewGames(v) = {}
              /\ mp[v] = 0 => NewMatches(v) = {}
  <2>1. \A c : c[1] \in games => Slots(c) <= 1
    <3> HIDE DEF games
    <3> QED
      BY <1>3 DEF Slots
  <2>2. \A c : c[1] \in matches => Slots(c) <= k
    BY SlotsOK DEF Slots
  <2> HIDE DEF games, matches, gp, mp, k, fixtures
  <2>3. /\ IsFiniteSet(NewGames(v)) /\ Taken(NewGames(v)) \in Nat
        /\ Taken(NewGames(v)) <= 1 * gp[v] /\ (gp[v] = 0 => NewGames(v) = {})
    BY <1>1, <1>3, <1>9, <2>1, NewOnVenue
  <2>4. /\ IsFiniteSet(NewMatches(v)) /\ Taken(NewMatches(v)) \in Nat
        /\ Taken(NewMatches(v)) <= k * mp[v] /\ (mp[v] = 0 => NewMatches(v) = {})
    BY <1>1, <1>3, <1>9, <1>10, <2>2, NewOnVenue
  <2> HIDE DEF NewGames, NewMatches
  <2> QED
    BY <1>9, <2>3, <2>4
<1>12. ASSUME NEW v \in Venues
       PROVE  \E places, A, B :
                 /\ places \in Nat /\ IsFiniteSet(A) /\ IsFiniteSet(B) /\ Active(v)' \subseteq A \cup B
                 /\ Taken(A) \in Nat /\ Taken(B) <= places
                 /\ places <= Positive(MaxActive - Taken(A))
                 /\ places = 0 => Active(v)' \subseteq Active(v)
  <2> DEFINE A == Kept(v)
             B == NewGames(v) \cup NewMatches(v)
             places == gp[v] + k * mp[v]
  <2>1. Active(v)' \subseteq A \cup B
    <3>1. ASSUME NEW c \in Active(v)', c \in DOMAIN new PROVE c \in B
      <4>1. core'[c].venue = v
        BY DEF Active, OnVenue
      <4>2. new[c].venue = v
        <5> HIDE DEF new, old
        <5> QED
          BY <1>2, <3>1, <4>1
      <4> QED
        BY <1>6, <3>1, <4>2
    <3> HIDE DEF new, A, B
    <3> QED
      BY <1>7, <3>1 DEF A
  <2>2. gp[v] = 0 /\ mp[v] = 0 => Active(v)' \subseteq Active(v)
    <3>1. SUFFICES ASSUME gp[v] = 0, mp[v] = 0, NEW c \in Active(v)' PROVE c \in Active(v)
      OBVIOUS
    <3>2. B = {}
      BY <1>11, <3>1
    <3>3. c \notin DOMAIN new
      <4>1. core'[c].venue = v
        BY DEF Active, OnVenue
      <4>2. c \in DOMAIN new => new[c].venue = v
        <5> HIDE DEF new, old
        <5> QED
          BY <1>2, <4>1
      <4> HIDE DEF new
      <4> QED
        BY <1>6, <3>2, <4>2
    <3> HIDE DEF new
    <3> QED
      BY <1>7, <3>3
  <2>3. /\ gp[v] \in Nat /\ mp[v] \in Nat /\ places <= Positive(MaxActive - Taken(A))
    <3>1. Free(Held1(up))[v] = Positive(MaxActive - Taken(A))
      <4>1. Held1(up)[v] = Taken(A)
        BY <1>8
      <4> HIDE DEF Held1, A
      <4> QED
        BY <4>1 DEF Free
    <3> HIDE DEF gp, mp, Held1, A, k
    <3> QED
      BY <1>9, <3>1
  <2>4. IsFiniteSet(A) /\ Taken(A) \in Nat
    BY <1>8
  <2>5. IsFiniteSet(B)
    BY <1>11, FS_Union
  <2>6. Taken(B) <= places /\ places \in Nat
    <3>1. Taken(B) <= Taken(NewGames(v)) + Taken(NewMatches(v))
      BY <1>11, TakenUnion
    <3>2. Taken(B) \in Nat
      BY <2>5, TakenNat
    <3> HIDE DEF B, NewGames, NewMatches, gp, mp, k
    <3>3. k * mp[v] \in Nat
      BY <1>10, <2>3
    <3> QED
      BY <1>11, <2>3, <3>1, <3>2, <3>3
  <2>7. places = 0 => Active(v)' \subseteq Active(v)
    <3>1. places = 0 => gp[v] = 0 /\ mp[v] = 0
      <4> HIDE DEF gp, mp, k
      <4>1. PICK m \in Nat, j \in Nat \ {0} : m = mp[v] /\ j = k
        BY <1>10, <2>3
      <4>2. m # 0 => j * m # 0 /\ j * m \in Nat
        BY <4>1
      <4>3. j * m \in Nat
        BY <4>1
      <4> QED
        BY <2>3, <4>1, <4>2, <4>3
    <3> QED
      BY <2>2, <3>1
  <2> HIDE DEF A, B, places
  <2> QED
    BY <2>1, <2>3, <2>4, <2>5, <2>6, <2>7, Zenon
<1> QED
  BY <1>5, <1>12

\* A sync keeps the budget: a venue that gets something new had room for it, and
\* on one that does not nothing becomes active.
LEMMA SyncKeepsBudget ==
    ASSUME TypeOK, IsFiniteSet(DOMAIN core), Sync,
           NEW v \in Venues, Taken(Active(v)) <= MaxActive
    PROVE  Taken(Active(v)') <= MaxActive
<1>1. PICK places, A, B :
        /\ places \in Nat /\ IsFiniteSet(A) /\ IsFiniteSet(B) /\ Active(v)' \subseteq A \cup B
        /\ Taken(A) \in Nat /\ Taken(B) <= places
        /\ places <= Positive(MaxActive - Taken(A))
        /\ places = 0 => Active(v)' \subseteq Active(v)
  BY SyncOnVenues
<1>2. IsFiniteSet(Active(v)) /\ Taken(Active(v)) \in Nat
  <2>1. Active(v) \subseteq DOMAIN core
    BY DEF Active, OnVenue, Listed
  <2> QED
    BY <2>1, FS_Subset, TakenNat
<1>3. IsFiniteSet(A \cup B) /\ IsFiniteSet(Active(v)') /\ Taken(Active(v)') \in Nat
      /\ Taken(A \cup B) \in Nat /\ Taken(B) \in Nat /\ MaxActive \in Nat
  BY <1>1, FS_Union, FS_Subset, TakenNat, PlanAssumption
<1>4. CASE places = 0
  <2>1. Taken(Active(v)') <= Taken(Active(v))
    BY <1>1, <1>2, <1>4, TakenMonotone
  <2> QED
    BY <1>2, <1>3, <2>1
<1>5. CASE places # 0
  <2>1. Taken(Active(v)') <= Taken(A \cup B)
    BY <1>1, <1>3, TakenMonotone
  <2>2. Taken(A \cup B) <= Taken(A) + Taken(B)
    BY <1>1, TakenUnion
  <2>3. Taken(A) + places <= MaxActive
    BY <1>1, <1>3, <1>5 DEF Positive
  <2> QED
    BY <1>1, <1>3, <2>1, <2>2, <2>3
<1> QED
  BY <1>4, <1>5

\* Nothing else lists a contract, and what is over stays so.
LEMMA OthersKeepBudget ==
    ASSUME TypeOK, [Next]_vars, ~Sync
    PROVE  core' = core /\ \A v \in Venues : Active(v)' \subseteq Active(v)
<1>1. core' = core
  BY DEF Next, vars, Tick, Move, End, SyncFails, Killed, Rotate, Restart,
         KeeperRestarts, Wrap, WrapFails, SettleVault, Relay, Write, WriteCut
<1>2. now \in Int /\ now' \in Int /\ now <= now'
  <2>1. now \in Int
    BY RegistryAssumption DEF TypeOK
  <2>2. now' = now \/ now' = now + 1
    BY DEF Next, vars, Tick, Move, End, SyncFails, Killed, Rotate, Restart,
           KeeperRestarts, Wrap, WrapFails, SettleVault, Relay, Write, WriteCut
  <2> QED
    BY <2>1, <2>2
<1>3. \A g \in Games : espn'[g].final = NoResult => espn[g].final = NoResult
  <2>1. CASE UNCHANGED espn
    BY <2>1
  <2>2. ASSUME NEW h \in Games, Move(h) PROVE <1>3
    BY <2>2 DEF Move, TypeOK
  <2>3. ASSUME NEW h \in Games, End(h) PROVE <1>3
    BY <2>3 DEF End, TypeOK
  <2>4. UNCHANGED espn \/ \E h \in Games : Move(h) \/ End(h)
    BY DEF Next, vars, Tick, SyncFails, Killed, Rotate, Restart,
           KeeperRestarts, Wrap, WrapFails, SettleVault, Relay, Write, WriteCut
  <2> QED
    BY <2>1, <2>2, <2>3, <2>4
<1>4. \A c \in DOMAIN core : c[1] \in Games /\ Expiry(c) \in Int
  BY PlanAssumption DEF TypeOK, Expiry
<1>5. ASSUME NEW v \in Venues, NEW c \in Active(v)' PROVE c \in Active(v)
  <2>1. /\ c \in OnVenue(Listed, v) /\ c \in DOMAIN core
        /\ Expiry(c) > now' /\ espn'[c[1]].final = NoResult
    BY <1>1 DEF Active, OnVenue, Listed
  <2> QED
    BY <1>2, <1>3, <1>4, <2>1 DEF Active
<1> QED
  BY <1>1, <1>5

\* What is not over on a venue fits its budget, for every budget, schedule and
\* number of games, whatever calls failed on the way.
THEOREM VenuesKeepBudget == Spec => []VenuesWithinBudget
<1> DEFINE BudgetInv == /\ RegistryInv /\ IsFiniteSet(DOMAIN core)
                        /\ \A v \in Venues : Taken(Active(v)) <= MaxActive
<1>1. Init => BudgetInv
  <2>1. SUFFICES ASSUME Init PROVE BudgetInv
    OBVIOUS
  <2>2. DOMAIN core = {}
    BY <2>1 DEF Init
  <2>3. IsFiniteSet(DOMAIN core)
    BY <2>2, FS_EmptySet
  <2>4. \A v \in Venues : Active(v) = {}
    BY <2>2 DEF Active, OnVenue, Listed
  <2>5. Taken({}) = 0 /\ MaxActive \in Nat
    BY TakenStep, FS_EmptySet, PlanAssumption
  <2>6. \A v \in Venues : Taken(Active(v)) <= MaxActive
    BY <2>4, <2>5
  <2> QED
    BY <2>1, <2>3, <2>6, InitOK
<1>2. BudgetInv /\ [Next]_vars => BudgetInv'
  <2>1. SUFFICES ASSUME BudgetInv, [Next]_vars PROVE BudgetInv'
    OBVIOUS
  <2>2. RegistryInv' /\ TypeOK
    BY <2>1, StepOK DEF RegistryInv
  <2>3. CASE Sync
    <3>1. IsFiniteSet(DOMAIN core')
      BY <2>1, <2>2, <2>3, SyncOnVenues
    <3>2. \A v \in Venues : Taken(Active(v)') <= MaxActive
      BY <2>1, <2>2, <2>3, SyncKeepsBudget
    <3> QED
      BY <2>2, <3>1, <3>2
  <2>4. CASE ~Sync
    <3>1. core' = core /\ \A v \in Venues : Active(v)' \subseteq Active(v)
      BY <2>1, <2>2, <2>4, OthersKeepBudget
    <3>2. ASSUME NEW v \in Venues PROVE Taken(Active(v)') <= MaxActive
      <4>1. Active(v) \subseteq DOMAIN core
        BY DEF Active, OnVenue, Listed
      <4>2. IsFiniteSet(Active(v)) /\ IsFiniteSet(Active(v)')
        BY <2>1, <3>1, <4>1, FS_Subset
      <4>3. Taken(Active(v)') <= Taken(Active(v))
        BY <3>1, <4>2, TakenMonotone
      <4>4. Taken(Active(v)) \in Nat /\ Taken(Active(v)') \in Nat /\ MaxActive \in Nat
        BY <4>2, TakenNat, PlanAssumption
      <4> QED
        BY <2>1, <4>3, <4>4
    <3> QED
      BY <2>1, <2>2, <3>1, <3>2
  <2> QED
    BY <2>3, <2>4
<1>3. BudgetInv => VenuesWithinBudget
  BY DEF VenuesWithinBudget, RegistryInv
<1> QED
  BY <1>1, <1>2, <1>3, PTL DEF Spec
=============================================================================
