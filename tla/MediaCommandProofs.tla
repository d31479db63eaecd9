-------------------------- MODULE MediaCommandProofs ------------------------
(***************************************************************************)
(* Theorems of MediaState, for any albums, listeners, handlers and cache   *)
(* size, and however much of each bound is used; and of the two parts the  *)
(* package has for sending media commands: of RateLimiter for every rate   *)
(* and burst, of CommandQueue for every set of commands.                   *)
(***************************************************************************)
EXTENDS MediaState, RateLimiter, CommandQueue, TLAPS, SequenceTheorems, FiniteSetTheorems

-----------------------------------------------------------------------------
(***************************************************************************)
(* The media state: the inductive invariant.                               *)
(***************************************************************************)
Dealt == \A l \in Listeners : inbox[l] = <<>>

\* Unless one was lost, the last report on its way is what the companion plays.
LastReport ==
    ~missed => \A l \in Listeners : inbox[l] # <<>> => inbox[l][Len(inbox[l])] = player

\* Without reports on their way, the stored state differs from the companion's by
\* a command that is about to be sent.
StateAgrees ==
    /\ media # NoMedia => Listeners # {}
    /\ ~missed /\ media # NoMedia /\ Dealt =>
          /\ media.album = player.album
          /\ \/ media.playing = player.playing
             \/ \E h \in Handlers : sending[h] = IF media.playing THEN "play" ELSE "pause"

\* Clients have been told of an album's image, or it is looked for or asked for.
Cared(a) ==
    \/ a \in told
    \/ \E step \in Steps : running[a][step] > 0
    \/ \E i \in 1 .. Len(queries) : queries[i] = a

NothingElse == spent.faults = 0 /\ spent.admin = 0

\* The album that plays is cared for; an image loaded from a file is shown, one
\* that was received has been shown.
AlbumsCared ==
    NothingElse =>
        /\ media # NoMedia /\ media.album # NoAlbum => Cared(media.album)
        /\ \A a \in Albums : AlbumKey(a) \in cache => a \in told \/ running[a]["show"] > 0
        /\ \A a \in Albums : ChecksumKey(a) \in cache => a \in told

IInv == TypeOK /\ LastReport /\ StateAgrees /\ AlbumsCared

LEMMA InitIInv == Init => IInv
<1> SUFFICES ASSUME Init PROVE IInv
  OBVIOUS
<1>1. [playing |-> FALSE, album |-> NoAlbum] \in MediaStates
  BY DEF MediaStates
<1>2. missed \in BOOLEAN
  BY Zenon DEF Init
<1>3. TypeOK
  BY <1>1, <1>2 DEF Init, TypeOK
<1>4. LastReport /\ StateAgrees /\ AlbumsCared
  BY DEF Init, LastReport, StateAgrees, AlbumsCared
<1> QED
  BY <1>3, <1>4 DEF IInv

-----------------------------------------------------------------------------
(***************************************************************************)
(* The steps of a look, and what is spent.                                 *)
(***************************************************************************)
LEMMA Spending ==
    ASSUME TypeOK, NEW what \in {"changes", "commands", "faults", "admin"}, NEW limit,
           Spend(what, limit)
    PROVE  /\ spent' \in [changes : Nat, commands : Nat, faults : Nat, admin : Nat]
           /\ spent'[what] > 0
           /\ \A w \in {"changes", "commands", "faults", "admin"} : w # what => spent'[w] = spent[w]
BY DEF TypeOK, Spend

LEMMA Going ==
    ASSUME TypeOK, NEW a \in Albums, NEW from \in Steps, NEW to \in Steps, from # to,
           running[a][from] > 0, Goes(a, from, to)
    PROVE  /\ running' \in [Albums -> [Steps -> Nat]]
           /\ running'[a][to] > 0
           /\ \A b \in Albums, step \in Steps :
                  b # a \/ step # from => running'[b][step] >= running[b][step]
<1>1. running \in [Albums -> [Steps -> Nat]]
  BY DEF TypeOK
<1>2. \A b \in Albums, step \in Steps :
          running'[b][step] = IF b = a /\ step = to THEN running[a][to] + 1
                              ELSE IF b = a /\ step = from THEN running[a][from] - 1
                              ELSE running[b][step]
  BY <1>1 DEF Goes
<1>3. running' \in [Albums -> [Steps -> Int]]
  BY <1>1 DEF Goes
<1> QED
  BY <1>1, <1>2, <1>3

LEMMA Ending ==
    ASSUME TypeOK, NEW a \in Albums, NEW from \in Steps, running[a][from] > 0, Ends(a, from)
    PROVE  /\ running' \in [Albums -> [Steps -> Nat]]
           /\ \A b \in Albums, step \in Steps :
                  b # a \/ step # from => running'[b][step] = running[b][step]
BY DEF TypeOK, Ends

LEMMA Beginning ==
    ASSUME TypeOK, NEW a \in Albums, running' = [running EXCEPT ![a]["cache"] = @ + 1]
    PROVE  /\ running' \in [Albums -> [Steps -> Nat]]
           /\ running'[a]["cache"] > 0
           /\ \A b \in Albums, step \in Steps : running'[b][step] >= running[b][step]
<1>1. running \in [Albums -> [Steps -> Nat]] /\ "cache" \in Steps
  BY DEF TypeOK, Steps
<1>2. running' = [running EXCEPT ![a] = [running[a] EXCEPT !["cache"] = running[a]["cache"] + 1]]
  BY <1>1
<1> QED
  BY <1>1, <1>2

LEMMA Storing ==
    ASSUME TypeOK, NEW a \in Albums, NEW key \in {AlbumKey(a), ChecksumKey(a)}, StoreInCache(key)
    PROVE  cache' \subseteq cache \cup {key} /\ cache' \subseteq Albums \X {"album", "checksum"}
BY DEF TypeOK, StoreInCache, AlbumKey, ChecksumKey

LEMMA SwapType ==
    ASSUME TypeOK, NEW l \in Listeners, SwapReports(l)
    PROVE  inbox' \in [Listeners -> Seq(MediaStates)] /\ missed' \in BOOLEAN
<1>1. PICK i \in 1 .. Len(inbox[l]) - 1 :
          /\ inbox' = [inbox EXCEPT ![l] =
                         [inbox[l] EXCEPT ![i] = inbox[l][i + 1], ![i + 1] = inbox[l][i]]]
          /\ missed' = (missed \/ i + 1 = Len(inbox[l]))
  BY DEF SwapReports
<1>2. missed' \in BOOLEAN
  BY <1>1, Zenon
<1>3. inbox \in [Listeners -> Seq(MediaStates)] /\ inbox[l] \in Seq(MediaStates)
  BY DEF TypeOK
<1>4. /\ i \in 1 .. Len(inbox[l]) /\ i + 1 \in 1 .. Len(inbox[l])
      /\ inbox[l][i] \in MediaStates /\ inbox[l][i + 1] \in MediaStates
  BY <1>1, <1>3
<1>5. [inbox[l] EXCEPT ![i] = inbox[l][i + 1], ![i + 1] = inbox[l][i]] \in Seq(MediaStates)
  BY <1>3, <1>4
<1> QED
  BY <1>1, <1>2, <1>3, <1>5

-----------------------------------------------------------------------------
(***************************************************************************)
(* Types.                                                                  *)
(***************************************************************************)
LEMMA ReportType ==
    ASSUME TypeOK, NEW s \in MediaStates, Report(s)
    PROVE  inbox' \in [Listeners -> Seq(MediaStates)] /\ missed' \in BOOLEAN
<1>1. missed' \in BOOLEAN
  BY Zenon DEF Report
<1> QED
  BY <1>1 DEF Report, TypeOK

LEMMA NextTypeOK == TypeOK /\ [Next]_vars => TypeOK'
<1> SUFFICES ASSUME TypeOK, [Next]_vars PROVE TypeOK'
  OBVIOUS
<1>1. CASE PlayerChanges
  BY <1>1, Spending, ReportType DEF PlayerChanges, TypeOK, looks
<1>2. CASE ReportLost
  <2>1. missed' \in BOOLEAN
    BY <1>2, Zenon DEF ReportLost
  <2> QED
    BY <1>2, <2>1, Spending DEF ReportLost, TypeOK, looks
<1>3. CASE ArtReceived
  BY <1>3 DEF ArtReceived, TypeOK, state, ChecksumKey
<1>4. CASE ArtNotReceived
  BY <1>4, Spending DEF ArtNotReceived, TypeOK, state
<1>5. ASSUME NEW l \in Listeners, UpdateMediaState(l) PROVE TypeOK'
  <2> DEFINE s == Head(inbox[l])
  <2>1. s \in MediaStates /\ inbox' \in [Listeners -> Seq(MediaStates)]
    BY <1>5 DEF UpdateMediaState, TypeOK
  <2>2. running' \in [Albums -> [Steps -> Nat]]
    <3>1. CASE IsNewAlbum(s) /\ s.album # NoAlbum
      BY <1>5, <2>1, <3>1, Beginning DEF UpdateMediaState, MediaStates
    <3>2. CASE ~(IsNewAlbum(s) /\ s.album # NoAlbum)
      BY <1>5, <3>2 DEF UpdateMediaState, TypeOK
    <3> QED
      BY <3>1, <3>2
  <2> QED
    BY <1>5, <2>1, <2>2 DEF UpdateMediaState, TypeOK
<1>6. ASSUME NEW h \in Handlers, NEW c \in Commands, SendMediaCommand(h, c) PROVE TypeOK'
  <2>1. media' = NoMedia \/ media' \in MediaStates
    BY <1>6 DEF SendMediaCommand, Expected, TypeOK, MediaStates
  <2> QED
    BY <1>6, <2>1, Spending DEF SendMediaCommand, TypeOK, looks
<1>7. ASSUME NEW h \in Handlers, SendCommand(h) PROVE TypeOK'
  <2>1. player' \in MediaStates
    <3>1. player' \in Obeyed(sending[h]) /\ player \in MediaStates
      BY <1>7 DEF SendCommand, TypeOK
    <3>2. CASE sending[h] = "play"
      BY <3>1, <3>2 DEF Obeyed, MediaStates
    <3>3. CASE sending[h] = "pause"
      BY <3>1, <3>3 DEF Obeyed, MediaStates
    <3>4. CASE sending[h] \notin {"play", "pause"}
      BY <3>1, <3>4 DEF Obeyed, MediaStates
    <3> QED
      BY <3>2, <3>3, <3>4
  <2>2. inbox' \in [Listeners -> Seq(MediaStates)] /\ missed' \in BOOLEAN
    BY <1>7, <2>1, ReportType DEF SendCommand, TypeOK
  <2> QED
    BY <1>7, <2>1, <2>2 DEF SendCommand, TypeOK, looks
<1>8. ASSUME NEW h \in Handlers, SendCommandFails(h) PROVE TypeOK'
  <2>1. missed' \in BOOLEAN
    BY <1>8, Zenon DEF SendCommandFails
  <2> QED
    BY <1>8, <2>1, Spending DEF SendCommandFails, TypeOK, looks
<1>9. ASSUME NEW a \in Albums, LookInCache(a) PROVE TypeOK'
  <2>1. running' \in [Albums -> [Steps -> Nat]]
    BY <1>9, Going, Ending DEF LookInCache, Steps
  <2> QED
    BY <1>9, <2>1 DEF LookInCache, TypeOK, state
<1>10. ASSUME NEW a \in Albums, LookForFile(a) PROVE TypeOK'
  <2>1. running' \in [Albums -> [Steps -> Nat]]
    BY <1>10, Going DEF LookForFile, Steps
  <2>2. cache' \subseteq Albums \X {"album", "checksum"}
    BY <1>10, Storing DEF LookForFile, TypeOK
  <2> QED
    BY <1>10, <2>1, <2>2 DEF LookForFile, TypeOK, state
<1>11. ASSUME NEW a \in Albums, LookForFileFails(a) PROVE TypeOK'
  <2>1. running' \in [Albums -> [Steps -> Nat]]
    BY <1>11, Going, Ending DEF LookForFileFails, Steps
  <2> QED
    BY <1>11, <2>1, Spending DEF LookForFileFails, TypeOK, state
<1>12. ASSUME NEW a \in Albums, ShowFile(a) PROVE TypeOK'
  BY <1>12, Ending DEF ShowFile, TypeOK, state, Steps
<1>13. ASSUME NEW a \in Albums, Ask(a) PROVE TypeOK'
  <2>1. running' \in [Albums -> [Steps -> Nat]]
    BY <1>13, Ending DEF Ask, Steps
  <2>2. spent' \in [changes : Nat, commands : Nat, faults : Nat, admin : Nat]
    BY <1>13, Spending DEF Ask, TypeOK
  <2>3. queries' \in Seq(Albums)
    <3>1. queries' = Append(queries, a) \/ queries' = queries
      BY <1>13 DEF Ask
    <3>2. queries \in Seq(Albums) /\ Append(queries, a) \in Seq(Albums)
      BY DEF TypeOK
    <3> QED
      BY <3>1, <3>2
  <2> QED
    BY <1>13, <2>1, <2>2, <2>3 DEF Ask, TypeOK, state
<1>14. CASE Upload \/ LegacyAlbumArt \/ ClearCache
  <2>1. cache' \subseteq Albums \X {"album", "checksum"}
    <3>1. CASE Upload
      BY <3>1, Storing DEF Upload
    <3>2. CASE LegacyAlbumArt
      BY <3>2, Storing, AlbumsAssumption DEF LegacyAlbumArt
    <3>3. CASE ClearCache
      BY <3>3 DEF ClearCache
    <3> QED
      BY <1>14, <3>1, <3>2, <3>3
  <2>2. spent' \in [changes : Nat, commands : Nat, faults : Nat, admin : Nat]
    BY <1>14, Spending DEF Upload, LegacyAlbumArt, ClearCache
  <2> QED
    BY <1>14, <2>1, <2>2 DEF Upload, LegacyAlbumArt, ClearCache, TypeOK, state
<1>15. ASSUME NEW l \in Listeners, SwapReports(l) PROVE TypeOK'
  BY <1>15, SwapType, Spending DEF SwapReports, TypeOK, looks
<1>16. CASE UNCHANGED vars
  BY <1>16 DEF vars, TypeOK
<1> QED
  BY <1>1, <1>2, <1>3, <1>4, <1>5, <1>6, <1>7, <1>8, <1>9, <1>10, <1>11, <1>12, <1>13, <1>14, <1>15,
     <1>16 DEF Next, Look

-----------------------------------------------------------------------------
(***************************************************************************)
(* Reports, and the stored state.                                          *)
(***************************************************************************)
LEMMA ReportLast ==
    ASSUME TypeOK, NEW s \in MediaStates, Report(s)
    PROVE  ~missed' /\ \A l \in Listeners : inbox'[l] # <<>> /\ inbox'[l][Len(inbox'[l])] = s
<1>1. ASSUME NEW l \in Listeners PROVE inbox'[l] # <<>> /\ inbox'[l][Len(inbox'[l])] = s
  <2>1. inbox[l] \in Seq(MediaStates) /\ inbox'[l] = Append(inbox[l], s)
    BY DEF Report, TypeOK
  <2> QED
    BY <2>1
<1> QED
  BY <1>1 DEF Report

\* What a command makes of the companion: it plays, it pauses, or its album changes.
LEMMA ObeyedState ==
    ASSUME TypeOK, NEW c \in Commands, NEW s \in Obeyed(c)
    PROVE  /\ s \in MediaStates
           /\ c = "play" => s.playing = TRUE /\ s.album = player.album
           /\ c = "pause" => s.playing = FALSE /\ s.album = player.album
           /\ c = "skip" => s.playing = player.playing
<1>1. player \in MediaStates
  BY DEF TypeOK
<1>2. CASE c = "play"
  BY <1>1, <1>2 DEF Obeyed, MediaStates
<1>3. CASE c = "pause"
  BY <1>1, <1>3 DEF Obeyed, MediaStates
<1>4. CASE c = "skip"
  BY <1>1, <1>4 DEF Obeyed, MediaStates
<1> QED
  BY <1>2, <1>3, <1>4 DEF Commands

LEMMA NextReports == IInv /\ [Next]_vars => LastReport' /\ StateAgrees'
<1> SUFFICES ASSUME TypeOK, LastReport, StateAgrees, [Next]_vars PROVE LastReport' /\ StateAgrees'
  BY DEF IInv
<1>1. ASSUME Report(player'), player' \in MediaStates, media' = media
      PROVE  LastReport' /\ StateAgrees'
  BY <1>1, ReportLast DEF LastReport, StateAgrees, Dealt
<1>2. ASSUME missed', UNCHANGED media PROVE LastReport' /\ StateAgrees'
  BY <1>2 DEF LastReport, StateAgrees
<1>3. CASE PlayerChanges
  BY <1>1, <1>3 DEF PlayerChanges
<1>4. CASE ReportLost
  BY <1>2, <1>4 DEF ReportLost
<1>5. ASSUME NEW l \in Listeners, UpdateMediaState(l) PROVE LastReport' /\ StateAgrees'
  <2> DEFINE n == Len(inbox[l])
  <2>1. /\ inbox[l] \in Seq(MediaStates) /\ inbox[l] # <<>> /\ inbox \in [Listeners -> Seq(MediaStates)]
        /\ media' = Head(inbox[l]) /\ inbox' = [inbox EXCEPT ![l] = Tail(inbox[l])]
        /\ UNCHANGED <<player, sending, missed>>
    BY <1>5 DEF UpdateMediaState, TypeOK
  <2>2. inbox'[l] = Tail(inbox[l]) /\ \A m \in Listeners : m # l => inbox'[m] = inbox[m]
    BY <2>1
  <2>3. inbox'[l] # <<>> => inbox'[l][Len(inbox'[l])] = inbox[l][n] /\ n > 1
    BY <2>1, <2>2
  <2>4. LastReport'
    BY <2>1, <2>2, <2>3 DEF LastReport
  <2>5. inbox'[l] = <<>> => media' = inbox[l][n]
    <3>1. ASSUME NEW q \in Seq(MediaStates), q # <<>>, Tail(q) = <<>> PROVE Head(q) = q[Len(q)]
      <4>1. Len(Tail(q)) = Len(q) - 1 /\ Len(q) \in Nat /\ Head(q) = q[1]
        BY <3>1
      <4>2. \A r \in Seq(MediaStates) : r = <<>> => Len(r) = 0
        OBVIOUS
      <4>3. Tail(q) \in Seq(MediaStates)
        BY <3>1
      <4> QED
        BY <3>1, <4>1, <4>2, <4>3
    <3> QED
      BY <2>1, <2>2, <3>1
  <2>6. ~missed' /\ Dealt' => media' = player'
    BY <2>1, <2>5 DEF LastReport, Dealt
  <2> QED
    BY <2>4, <2>6 DEF StateAgrees
<1>6. ASSUME NEW h \in Handlers, NEW c \in Commands, SendMediaCommand(h, c)
      PROVE  LastReport' /\ StateAgrees'
  <2>1. /\ sending[h] = "none" /\ sending' = [sending EXCEPT ![h] = c]
        /\ UNCHANGED <<player, inbox, missed>>
        /\ sending \in [Handlers -> Commands \cup {"none"}]
    BY <1>6 DEF SendMediaCommand, TypeOK
  <2>2. LastReport'
    BY <2>1 DEF LastReport
  <2>3. CASE media = NoMedia
    BY <1>6, <2>2, <2>3 DEF SendMediaCommand, StateAgrees
  <2>4. CASE media # NoMedia
    <3>1. media \in MediaStates /\ media' = Expected(c)
      BY <1>6, <2>4 DEF SendMediaCommand, TypeOK
    <3>2. /\ media'.album = media.album
          /\ c = "play" => media'.playing = TRUE
          /\ c = "pause" => media'.playing = FALSE
          /\ c = "skip" => media' = media
      BY <3>1 DEF Expected, MediaStates
    <3>3. SUFFICES ASSUME ~missed, Dealt
                   PROVE  /\ media'.album = player.album
                          /\ \/ media'.playing = player.playing
                             \/ \E g \in Handlers :
                                    sending'[g] = IF media'.playing THEN "play" ELSE "pause"
      BY <2>1, <2>2, <2>4 DEF StateAgrees, Dealt
    <3>4. CASE c = "skip"
      BY <2>1, <2>4, <3>2, <3>3, <3>4 DEF StateAgrees
    <3>5. CASE c # "skip"
      <4>1. sending'[h] = IF media'.playing THEN "play" ELSE "pause"
        BY <2>1, <3>2, <3>5 DEF Commands
      <4> QED
        BY <2>4, <3>2, <3>3, <4>1 DEF StateAgrees
    <3> QED
      BY <3>4, <3>5
  <2> QED
    BY <2>2, <2>3, <2>4
<1>7. ASSUME NEW h \in Handlers, SendCommand(h) PROVE LastReport' /\ StateAgrees'
  <2>1. /\ sending[h] \in Commands /\ player' \in Obeyed(sending[h])
        /\ sending' = [sending EXCEPT ![h] = "none"] /\ UNCHANGED media
        /\ sending \in [Handlers -> Commands \cup {"none"}]
    BY <1>7 DEF SendCommand, TypeOK
  <2>2. CASE player' # player
    <3>1. Report(player') /\ player' \in MediaStates
      BY <1>7, <2>1, <2>2, ObeyedState DEF SendCommand
    <3> QED
      BY <1>1, <2>1, <3>1
  <2>3. CASE player' = player
    <3>1. UNCHANGED <<inbox, missed>>
      BY <1>7, <2>3 DEF SendCommand
    <3>2. LastReport'
      BY <2>3, <3>1 DEF LastReport
    <3>3. SUFFICES ASSUME ~missed, Dealt, media # NoMedia
                   PROVE  /\ media.album = player.album
                          /\ \/ media.playing = player.playing
                             \/ \E g \in Handlers :
                                    sending'[g] = IF media.playing THEN "play" ELSE "pause"
      BY <2>1, <2>3, <3>1, <3>2 DEF StateAgrees, Dealt
    <3>4. media.album = player.album /\ player.playing \in BOOLEAN /\ media.playing \in BOOLEAN
      BY <3>3 DEF StateAgrees, TypeOK, MediaStates
    <3>5. CASE media.playing = player.playing
      BY <3>4, <3>5
    <3>6. CASE media.playing # player.playing
      <4>1. PICK g \in Handlers : sending[g] = IF media.playing THEN "play" ELSE "pause"
        BY <3>3, <3>6 DEF StateAgrees
      <4>2. g # h
        BY <2>1, <2>3, <3>4, <3>6, <4>1, ObeyedState
      <4>3. sending'[g] = sending[g]
        BY <2>1, <4>2
      <4> QED
        BY <3>4, <4>1, <4>3
    <3> QED
      BY <3>5, <3>6
  <2> QED
    BY <2>2, <2>3
<1>8. ASSUME NEW h \in Handlers, SendCommandFails(h) PROVE LastReport' /\ StateAgrees'
  BY <1>2, <1>8 DEF SendCommandFails
<1>9. ASSUME UNCHANGED state PROVE LastReport' /\ StateAgrees'
  BY <1>9 DEF state, LastReport, StateAgrees, Dealt
<1>10. ASSUME NEW a \in Albums, Look(a) \/ LookForFileFails(a) PROVE UNCHANGED state
  BY <1>10 DEF Look, LookInCache, LookForFile, LookForFileFails, ShowFile, Ask
<1>11. CASE ArtReceived \/ ArtNotReceived \/ Upload \/ LegacyAlbumArt \/ ClearCache \/ UNCHANGED vars
  <2>1. UNCHANGED state
    BY <1>11 DEF ArtReceived, ArtNotReceived, Upload, LegacyAlbumArt, ClearCache, vars, state
  <2> QED
    BY <1>9, <2>1
\* A swap leaves the last report in its place, or is remembered as a miss.
<1>12. ASSUME NEW l \in Listeners, SwapReports(l) PROVE LastReport' /\ StateAgrees'
  <2>1. PICK i \in 1 .. Len(inbox[l]) - 1 :
            /\ inbox' = [inbox EXCEPT ![l] =
                           [inbox[l] EXCEPT ![i] = inbox[l][i + 1], ![i + 1] = inbox[l][i]]]
            /\ missed' = (missed \/ i + 1 = Len(inbox[l]))
    BY <1>12 DEF SwapReports
  <2>2. UNCHANGED media
    BY <1>12 DEF SwapReports
  <2>3. CASE missed \/ i + 1 = Len(inbox[l])
    BY <1>2, <2>1, <2>2, <2>3
  <2>4. CASE ~missed /\ i + 1 # Len(inbox[l])
    <3>1. UNCHANGED <<player, media, sending>> /\ inbox \in [Listeners -> Seq(MediaStates)]
      BY <1>12 DEF SwapReports, TypeOK
    <3>2. inbox[l] \in Seq(MediaStates) /\ Len(inbox[l]) \in Nat /\ i + 1 < Len(inbox[l])
      BY <2>1, <2>4, <3>1
    <3>3. /\ inbox'[l] # <<>> /\ Len(inbox'[l]) = Len(inbox[l])
          /\ inbox'[l][Len(inbox[l])] = inbox[l][Len(inbox[l])]
      BY <2>1, <3>1, <3>2
    <3>4. \A m \in Listeners : m # l => inbox'[m] = inbox[m]
      BY <2>1, <3>1
    <3>5. inbox[l] # <<>>
      BY <3>2
    <3>6. LastReport'
      BY <2>4, <3>1, <3>3, <3>4, <3>5 DEF LastReport
    <3>7. ~Dealt'
      BY <3>3 DEF Dealt
    <3> QED
      BY <3>1, <3>6, <3>7 DEF StateAgrees
  <2> QED
    BY <2>3, <2>4
<1> QED
  BY <1>3, <1>4, <1>5, <1>6, <1>7, <1>8, <1>9, <1>10, <1>11, <1>12 DEF Next

-----------------------------------------------------------------------------
(***************************************************************************)
(* Images.                                                                 *)
(***************************************************************************)
\* An album stays cared for: a step of a look for it is followed by the next one,
\* ends when it was shown, or leaves it among the queries.
LEMMA NextAlbums == IInv /\ [Next]_vars => AlbumsCared'
<1> SUFFICES ASSUME TypeOK, AlbumsCared, [Next]_vars, NothingElse' PROVE AlbumsCared'
  BY DEF IInv, AlbumsCared
<1>1. /\ NothingElse => /\ media # NoMedia /\ media.album # NoAlbum => Cared(media.album)
                        /\ \A a \in Albums : AlbumKey(a) \in cache => a \in told \/ running[a]["show"] > 0
                        /\ \A a \in Albums : ChecksumKey(a) \in cache => a \in told
      /\ media # NoMedia => media.album \in Albums \cup {NoAlbum}
      /\ \A a \in Albums, step \in Steps : running[a][step] \in Nat
      /\ "cache" \in Steps /\ "file" \in Steps /\ "show" \in Steps /\ "ask" \in Steps
      /\ queries \in Seq(Albums)
  <2>1. media # NoMedia => media.album \in Albums \cup {NoAlbum}
    BY DEF TypeOK, MediaStates
  <2>2. "cache" \in Steps /\ "file" \in Steps /\ "show" \in Steps /\ "ask" \in Steps
    BY DEF Steps
  <2>3. running \in [Albums -> [Steps -> Nat]] /\ queries \in Seq(Albums)
    BY DEF TypeOK
  <2> QED
    BY <2>1, <2>2, <2>3 DEF AlbumsCared
<1>2. ASSUME NEW what \in {"changes", "commands"}, NEW limit, Spend(what, limit) PROVE NothingElse
  BY <1>2, Spending DEF NothingElse
<1>3. ASSUME NEW what \in {"faults", "admin"}, NEW limit, Spend(what, limit) PROVE FALSE
  BY <1>3, Spending DEF NothingElse, TypeOK
<1>4. UNCHANGED spent => NothingElse
  BY DEF NothingElse
\* It is enough that the album that plays keeps its care.
<1>5. ASSUME NothingElse, UNCHANGED <<running, cache, queries, told>>,
             \/ UNCHANGED media
             \/ media # NoMedia /\ media'.album = media.album
      PROVE  AlbumsCared'
  BY <1>1, <1>5 DEF AlbumsCared, Cared
<1>6. CASE PlayerChanges
  BY <1>2, <1>5, <1>6 DEF PlayerChanges, looks
<1>7. CASE ReportLost \/ ArtNotReceived \/ Upload \/ LegacyAlbumArt \/ ClearCache
  BY <1>3, <1>7 DEF ReportLost, ArtNotReceived, Upload, LegacyAlbumArt, ClearCache
<1>8. CASE ArtReceived
  <2>1. /\ UNCHANGED <<media, running, spent>> /\ queries # <<>> /\ queries' = Tail(queries)
        /\ Head(queries) \in Albums /\ told' = told \cup {Head(queries)}
        /\ cache' \subseteq cache \cup {ChecksumKey(Head(queries))}
    <3>1. /\ UNCHANGED <<media, running, spent>> /\ queries # <<>> /\ queries' = Tail(queries)
          /\ Head(queries) \in Albums
      BY <1>1, <1>8 DEF ArtReceived, state
    <3>2. CASE ChecksumKey(Head(queries)) \in cache
      BY <1>1, <1>4, <1>8, <3>1, <3>2 DEF ArtReceived
    <3>3. CASE ChecksumKey(Head(queries)) \notin cache
      BY <1>8, <3>1, <3>3 DEF ArtReceived
    <3> QED
      BY <3>1, <3>2, <3>3
  <2>2. ASSUME NEW a \in Albums, Cared(a) PROVE Cared(a)'
    <3>1. CASE \E i \in 1 .. Len(queries) : queries[i] = a
      <4>1. PICK i \in 1 .. Len(queries) : queries[i] = a
        BY <3>1
      <4>2. CASE i = 1
        BY <1>1, <2>1, <4>1, <4>2 DEF Cared
      <4>3. CASE i # 1
        <5>1. i - 1 \in 1 .. Len(queries') /\ queries'[i - 1] = a
          BY <1>1, <2>1, <4>1, <4>3
        <5> QED
          BY <5>1 DEF Cared
      <4> QED
        BY <4>2, <4>3
    <3>2. CASE a \in told \/ \E step \in Steps : running[a][step] > 0
      BY <2>1, <3>2 DEF Cared
    <3> QED
      BY <2>2, <3>1, <3>2 DEF Cared
  <2>3. \A a \in Albums :
            /\ AlbumKey(a) \in cache' => AlbumKey(a) \in cache
            /\ ChecksumKey(a) \in cache' => ChecksumKey(a) \in cache \/ a = Head(queries)
    BY <2>1 DEF AlbumKey, ChecksumKey
  <2> QED
    BY <1>1, <1>4, <2>1, <2>2, <2>3 DEF AlbumsCared
<1>9. ASSUME NEW l \in Listeners, UpdateMediaState(l) PROVE AlbumsCared'
  <2> DEFINE s == Head(inbox[l])
  <2>1. media' = s /\ s \in MediaStates /\ UNCHANGED <<cache, queries, told, spent>> /\ NothingElse
    BY <1>4, <1>9 DEF UpdateMediaState, TypeOK
  <2>2. CASE IsNewAlbum(s) /\ s.album # NoAlbum
    <3>1. s.album \in Albums /\ running' = [running EXCEPT ![s.album]["cache"] = @ + 1]
      BY <1>9, <2>1, <2>2 DEF UpdateMediaState, MediaStates
    <3>2. /\ running'[s.album]["cache"] > 0
          /\ \A b \in Albums, step \in Steps : running'[b][step] >= running[b][step]
      BY <3>1, Beginning
    <3>3. running' \in [Albums -> [Steps -> Nat]]
      BY <3>1, Beginning
    <3>4. \A a \in Albums : running[a]["show"] > 0 => running'[a]["show"] > 0
      BY <1>1, <3>2, <3>3
    <3> QED
      BY <1>1, <2>1, <3>2, <3>4 DEF AlbumsCared, Cared
  <2>3. CASE ~(IsNewAlbum(s) /\ s.album # NoAlbum)
    <3>1. UNCHANGED running
      BY <1>9, <2>3 DEF UpdateMediaState
    <3>2. s.album # NoAlbum => media # NoMedia /\ media.album = s.album
      BY <2>3 DEF IsNewAlbum
    <3> QED
      BY <1>1, <2>1, <3>1, <3>2 DEF AlbumsCared, Cared
  <2> QED
    BY <2>2, <2>3
<1>10. ASSUME NEW h \in Handlers, NEW c \in Commands, SendMediaCommand(h, c) PROVE AlbumsCared'
  <2>1. Spend("commands", MaxCommands) /\ UNCHANGED looks
    BY <1>10 DEF SendMediaCommand
  <2>2. \/ media = NoMedia /\ media' = NoMedia
        \/ media # NoMedia /\ media' = Expected(c) /\ media \in MediaStates
    BY <1>10 DEF SendMediaCommand, TypeOK
  <2>3. UNCHANGED media \/ (media # NoMedia /\ media'.album = media.album)
    BY <2>2 DEF Expected, MediaStates
  <2> QED
    BY <1>2, <1>5, <2>1, <2>3 DEF looks
<1>11. ASSUME NEW h \in Handlers, SendCommand(h) PROVE AlbumsCared'
  BY <1>4, <1>5, <1>11 DEF SendCommand, looks
<1>12. ASSUME NEW h \in Handlers, SendCommandFails(h) PROVE FALSE
  BY <1>3, <1>12 DEF SendCommandFails
\* The steps of a look for a: what is running of other looks goes on.
<1>13. ASSUME NEW a \in Albums, NEW from \in Steps, NothingElse, UNCHANGED media,
              \A b \in Albums, step \in Steps :
                  (b # a \/ step # from) /\ running[b][step] > 0 => running'[b][step] > 0,
              told \subseteq told',
              \A i \in 1 .. Len(queries) : i \in 1 .. Len(queries') /\ queries'[i] = queries[i],
              Cared(a)',
              from = "show" => a \in told',
              \A b \in Albums : AlbumKey(b) \in cache' =>
                  AlbumKey(b) \in cache \/ (b = a /\ running'[a]["show"] > 0),
              \A b \in Albums : ChecksumKey(b) \in cache' => ChecksumKey(b) \in cache
       PROVE  AlbumsCared'
  <2>1. ASSUME NEW b \in Albums, Cared(b) PROVE Cared(b)'
    <3>1. CASE b = a
      BY <1>13, <3>1
    <3>2. CASE b # a
      BY <1>13, <2>1, <3>2 DEF Cared
    <3> QED
      BY <3>1, <3>2
  <2>2. ASSUME NEW b \in Albums, AlbumKey(b) \in cache' PROVE b \in told' \/ running'[b]["show"] > 0
    <3>1. CASE b = a /\ running'[a]["show"] > 0
      BY <3>1
    <3>2. CASE AlbumKey(b) \in cache
      BY <1>1, <1>13, <3>2
    <3> QED
      BY <1>13, <2>2, <3>1, <3>2
  <2> QED
    BY <1>1, <1>13, <2>1, <2>2 DEF AlbumsCared
<1>14. ASSUME NEW a \in Albums, LookInCache(a) PROVE AlbumsCared'
  <2>1. /\ running[a]["cache"] > 0 /\ UNCHANGED <<media, cache, queries, told>> /\ NothingElse
        /\ IF AlbumKey(a) \in cache THEN Ends(a, "cache") ELSE Goes(a, "cache", "file")
    BY <1>4, <1>14 DEF LookInCache, state
  <2>2. CASE AlbumKey(a) \in cache
    <3>1. /\ \A b \in Albums, step \in Steps :
                 b # a \/ step # "cache" => running'[b][step] = running[b][step]
      BY <1>1, <2>1, <2>2, Ending
    <3>2. Cared(a)'
      BY <1>1, <2>1, <2>2, <3>1 DEF Cared
    <3> QED
      BY <1>1, <1>13, <2>1, <3>1, <3>2
  <2>3. CASE AlbumKey(a) \notin cache
    <3>1. /\ running' \in [Albums -> [Steps -> Nat]]
          /\ running'[a]["file"] > 0
          /\ \A b \in Albums, step \in Steps :
                 b # a \/ step # "cache" => running'[b][step] >= running[b][step]
      BY <1>1, <2>1, <2>3, Going
    <3>2. \A b \in Albums, step \in Steps :
              (b # a \/ step # "cache") /\ running[b][step] > 0 => running'[b][step] > 0
      BY <1>1, <3>1
    <3>3. Cared(a)'
      BY <1>1, <3>1 DEF Cared
    <3> QED
      BY <1>1, <1>13, <2>1, <3>2, <3>3
  <2> QED
    BY <2>2, <2>3
<1>15. ASSUME NEW a \in Albums, LookForFile(a) PROVE AlbumsCared'
  <2>1. /\ running[a]["file"] > 0 /\ UNCHANGED <<media, queries, told>> /\ NothingElse
    BY <1>4, <1>15 DEF LookForFile, state
  <2>2. PICK to \in {"show", "ask"} :
            /\ Goes(a, "file", to)
            /\ \/ to = "show" /\ StoreInCache(AlbumKey(a))
               \/ to = "ask" /\ UNCHANGED cache
    <3>1. CASE a \in Filed
      BY <1>15, <3>1 DEF LookForFile
    <3>2. CASE a \notin Filed
      BY <1>15, <3>2 DEF LookForFile
    <3> QED
      BY <3>1, <3>2
  <2>3. /\ running' \in [Albums -> [Steps -> Nat]]
        /\ running'[a][to] > 0 /\ to \in Steps
        /\ \A b \in Albums, step \in Steps :
               b # a \/ step # "file" => running'[b][step] >= running[b][step]
    BY <1>1, <2>1, <2>2, Going
  <2>4. \A b \in Albums, step \in Steps :
            (b # a \/ step # "file") /\ running[b][step] > 0 => running'[b][step] > 0
    <3> SUFFICES ASSUME NEW b \in Albums, NEW step \in Steps,
                        b # a \/ step # "file", running[b][step] > 0
                 PROVE  running'[b][step] > 0
      OBVIOUS
    <3>1. running[b][step] \in Nat /\ running'[b][step] \in Nat
      BY <1>1, <2>3
    <3> QED
      BY <2>3, <3>1
  <2>5. Cared(a)'
    BY <2>3 DEF Cared
  <2>6. (to = "show" /\ cache' \subseteq cache \cup {AlbumKey(a)}) \/ UNCHANGED cache
    BY <2>2, Storing
  <2>7. ASSUME NEW b \in Albums, AlbumKey(b) \in cache'
        PROVE  AlbumKey(b) \in cache \/ (b = a /\ running'[a]["show"] > 0)
    BY <2>2, <2>3, <2>7, <2>6 DEF AlbumKey
  <2>8. \A b \in Albums : ChecksumKey(b) \in cache' => ChecksumKey(b) \in cache
    BY <2>6 DEF AlbumKey, ChecksumKey
  <2> QED
    BY <1>1, <1>13, <2>1, <2>4, <2>5, <2>7, <2>8
<1>16. ASSUME NEW a \in Albums, LookForFileFails(a) PROVE FALSE
  BY <1>3, <1>16 DEF LookForFileFails
<1>17. ASSUME NEW a \in Albums, ShowFile(a) PROVE AlbumsCared'
  <2>1. /\ running[a]["show"] > 0 /\ UNCHANGED <<media, cache, queries>> /\ NothingElse
        /\ told' = told \cup {a} /\ Ends(a, "show")
    BY <1>4, <1>17 DEF ShowFile, state
  <2>2. \A b \in Albums, step \in Steps :
            b # a \/ step # "show" => running'[b][step] = running[b][step]
    BY <1>1, <2>1, Ending
  <2>3. Cared(a)'
    BY <2>1 DEF Cared
  <2>4. \A b \in Albums, step \in Steps :
            (b # a \/ step # "show") /\ running[b][step] > 0 => running'[b][step] > 0
    BY <2>2
  <2>5. "show" \in Steps /\ a \in told' /\ told \subseteq told'
    BY <2>1 DEF Steps
  <2>6. \A i \in 1 .. Len(queries) : i \in 1 .. Len(queries') /\ queries'[i] = queries[i]
    BY <2>1
  <2> QED
    BY <1>13, <2>1, <2>3, <2>4, <2>5, <2>6
<1>18. ASSUME NEW a \in Albums, Ask(a) PROVE AlbumsCared'
  <2>1. /\ running[a]["ask"] > 0 /\ UNCHANGED <<media, cache, told>> /\ NothingElse
        /\ queries' = Append(queries, a) /\ Ends(a, "ask")
    BY <1>3, <1>4, <1>18 DEF Ask, state
  <2>2. \A b \in Albums, step \in Steps :
            b # a \/ step # "ask" => running'[b][step] = running[b][step]
    BY <1>1, <2>1, Ending
  <2>3. /\ \A i \in 1 .. Len(queries) : i \in 1 .. Len(queries') /\ queries'[i] = queries[i]
        /\ Len(queries') \in 1 .. Len(queries') /\ queries'[Len(queries')] = a
    BY <1>1, <2>1
  <2>4. Cared(a)'
    BY <2>3 DEF Cared
  <2> QED
    BY <1>1, <1>13, <2>1, <2>2, <2>3, <2>4
<1>19. ASSUME NEW l \in Listeners, SwapReports(l) PROVE FALSE
  BY <1>3, <1>19 DEF SwapReports
<1>20. CASE UNCHANGED vars
  BY <1>4, <1>5, <1>20 DEF vars
<1> QED
  BY <1>6, <1>7, <1>8, <1>9, <1>10, <1>11, <1>12, <1>14, <1>15, <1>16, <1>17, <1>18, <1>19, <1>20
     DEF Next, Look

-----------------------------------------------------------------------------
LEMMA Invariance == Spec => []IInv
<1>1. IInv /\ [Next]_vars => IInv'
  BY NextTypeOK, NextReports, NextAlbums DEF IInv
<1> QED
  BY InitIInv, <1>1, PTL DEF Spec

\* Once all is dealt with, what the daemon stores is what the companion plays
\* (manager.go:312-463), unless the last report was lost or overtaken, or a command
\* failed since: for any albums, listeners and handlers, and any number of changes,
\* commands and faults.
THEOREM Settles == Spec => []SettledAgrees
<1>1. IInv => SettledAgrees
  <2> SUFFICES ASSUME IInv, Settled, ~missed, media # NoMedia PROVE media = player
    BY DEF SettledAgrees, IInv
  <2>1. media.album = player.album /\ media.playing = player.playing
    BY DEF IInv, StateAgrees, Settled, Dealt
  <2>2. media \in MediaStates /\ player \in MediaStates
    BY DEF IInv, TypeOK
  <2> QED
    BY <2>1, <2>2 DEF MediaStates
<1> QED
  BY Invariance, <1>1, PTL

\* Once all is dealt with, and unless something failed or someone else filled the
\* cache, clients have been told of the image of the album that plays
\* (manager.go:641-688), however many looks for images overlapped.
THEOREM Announced == Spec => []AlbumAnnounced
<1>1. IInv => AlbumAnnounced
  BY DEF IInv, TypeOK, MediaStates, AlbumsCared, NothingElse, Cared, AlbumAnnounced, Settled
<1> QED
  BY Invariance, <1>1, PTL

-----------------------------------------------------------------------------
(***************************************************************************)
(* The rate limiter.                                                       *)
(***************************************************************************)
\* The minimal distance times the rate makes up the second, but for a rest that
\* is smaller than the rate and no longer than the distance.
LEMMA DelayTimesRate ==
    ASSUME NEW r \in Rates
    PROVE  /\ Second \div r \in Nat \ {0} /\ Second \div r <= Second
           /\ Second % r \in Nat /\ Second % r < r /\ Second % r <= Second \div r
           /\ r * (Second \div r) + (Second % r) = Second
<1>1. Second \in Nat \ {0} /\ r \in Nat \ {0} /\ Second % r <= Second \div r
  BY LimiterAssumption
<1>2. \A s \in Nat \ {0}, q \in Nat \ {0} :
        /\ s \div q \in Nat /\ s \div q <= s
        /\ s % q \in Nat /\ s % q < q /\ q * (s \div q) + (s % q) = s
  OBVIOUS
<1>3. \A q \in Nat : q * 0 = 0
  OBVIOUS
<1>4. Second \div r # 0
  BY <1>1, <1>2, <1>3
<1> QED
  BY <1>1, <1>2, <1>4

\* The time remembered covers a second.
LEMMA HorizonLong == Horizon \in Nat /\ Horizon >= Second
<1>1. PICK most \in Bursts : \A b \in Bursts : b <= most
  BY LimiterAssumption
<1>2. /\ Second \in Nat \ {0} /\ Bursts \subseteq Nat \ {0}
  BY LimiterAssumption
<1>3. Max(Bursts) \in Bursts
  <2>1. \A b \in Bursts : most >= b
    BY <1>1, <1>2
  <2> QED
    BY <2>1, <1>1 DEF Max
<1>4. \A s \in Nat \ {0}, n \in Nat \ {0} : s * n + 1 \in Nat /\ s * n + 1 >= s
  OBVIOUS
<1> QED
  BY <1>2, <1>3, <1>4 DEF Horizon

\* The cap of a refill.
LEMMA LesserOfTwo ==
    ASSUME NEW a \in Int, NEW b \in Int
    PROVE  Min({a, b}) = IF a <= b THEN a ELSE b
BY DEF Min

-----------------------------------------------------------------------------
(***************************************************************************)
(* The bucket is empty only after a command, and has not been refilled     *)
(* since; the grants of the last second are a minimal distance apart.      *)
(***************************************************************************)
EmptiedByCommand ==
    tokens = 0 => sinceCommand # Never /\ sinceRefill >= sinceCommand

Spaced ==
    /\ recent # <<>> => sinceCommand # Never
    /\ \A i \in 1 .. Len(recent) :
         recent[i] >= sinceCommand + (Len(recent) - i) * CommandDelay

LimiterInv == LimiterTypeOK /\ EmptiedByCommand /\ Spaced

\* What the settings say of the numbers.
LEMMA Numbers ==
    ASSUME LimiterTypeOK
    PROVE  /\ config.rate \in Nat \ {0} /\ config.burst \in Nat \ {0}
           /\ Second \in Nat \ {0} /\ Horizon \in Nat /\ Horizon >= Second
           /\ CommandDelay \in Nat \ {0} /\ CommandDelay <= Second
           /\ Second % config.rate \in Nat /\ Second % config.rate < config.rate
           /\ Second % config.rate <= CommandDelay
           /\ config.rate * CommandDelay + (Second % config.rate) = Second
           /\ tokens \in Nat /\ tokens <= config.burst
           /\ sinceRefill \in Nat /\ sinceRefill <= Horizon
           /\ sinceCommand \in Int /\ sinceCommand <= Horizon
           /\ sinceCommand = Never \/ sinceCommand \in Nat
           /\ Len(recent) \in Nat /\ DOMAIN recent = 1 .. Len(recent)
           /\ \A i \in 1 .. Len(recent) : recent[i] \in 0 .. Second - 1
<1>1. config \in [rate : Rates, burst : Bursts]
  BY DEF LimiterTypeOK, Config
<1>2. /\ config.rate \in Rates /\ config.burst \in Bursts
  BY <1>1
<1>3. /\ Second \in Nat \ {0} /\ config.rate \in Nat \ {0} /\ config.burst \in Nat \ {0}
  BY <1>2, LimiterAssumption
<1>4. /\ CommandDelay \in Nat \ {0} /\ CommandDelay <= Second
      /\ Second % config.rate \in Nat /\ Second % config.rate < config.rate
      /\ Second % config.rate <= CommandDelay
      /\ config.rate * CommandDelay + (Second % config.rate) = Second
  BY <1>2, DelayTimesRate DEF CommandDelay
<1>5. Horizon \in Nat /\ Horizon >= Second
  BY HorizonLong
<1>6. /\ tokens \in Nat /\ tokens <= config.burst
      /\ sinceRefill \in Nat /\ sinceRefill <= Horizon
      /\ sinceCommand \in Int /\ sinceCommand <= Horizon
      /\ sinceCommand = Never \/ sinceCommand \in Nat
  BY <1>3, <1>5 DEF LimiterTypeOK, Never
<1>7. /\ Len(recent) \in Nat /\ DOMAIN recent = 1 .. Len(recent)
      /\ \A i \in 1 .. Len(recent) : recent[i] \in 0 .. Second - 1
  <2>1. recent \in Seq(0 .. Second - 1)
    BY DEF LimiterTypeOK
  <2> QED
    BY <2>1, LenProperties, ElementOfSeq
<1> QED
  BY <1>3, <1>4, <1>5, <1>6, <1>7

\* What a refill may leave.
LEMMA Refilled ==
    ASSUME LimiterTypeOK, NEW left \in Refill
    PROVE  /\ left.tokens \in 0 .. config.burst /\ left.since \in 0 .. Horizon
           /\ left.tokens = 0 => tokens = 0 /\ left.since = sinceRefill
           /\ sinceRefill > CommandDelay => left.tokens > 0
<1>1. /\ config.rate \in Nat \ {0} /\ config.burst \in Nat \ {0}
      /\ Second \in Nat \ {0} /\ Horizon \in Nat
      /\ CommandDelay \in Nat \ {0}
      /\ Second % config.rate \in Nat /\ Second % config.rate < config.rate
      /\ config.rate * CommandDelay + (Second % config.rate) = Second
      /\ tokens \in Nat /\ tokens <= config.burst
      /\ sinceRefill \in Nat /\ sinceRefill <= Horizon
  BY Numbers
<1> DEFINE exact == sinceRefill * config.rate
<1>2. exact \in Nat /\ (sinceRefill > CommandDelay => exact > Second)
  <2>1. \A x \in Nat, r \in Nat \ {0}, d \in Nat \ {0} :
          /\ x * r \in Nat
          /\ x > d => x * r >= r * d + r
    OBVIOUS
  <2>2. sinceRefill > CommandDelay => exact >= config.rate * CommandDelay + config.rate
    BY <1>1, <2>1
  <2>3. config.rate * CommandDelay \in Nat
    BY <1>1
  <2> QED
    BY <1>1, <2>1, <2>2, <2>3
<1>3. PICK n \in TokensToAdd :
        left = IF n > 0
               THEN [tokens |-> Min({tokens + n, config.burst}), since |-> 0]
               ELSE [tokens |-> tokens, since |-> sinceRefill]
  BY DEF Refill
<1>4. n \in Nat /\ (exact > Second => n > 0)
  <2> HIDE DEF exact
  <2>1. \A x \in Nat, q \in Nat \ {0} :
          /\ x \div q \in Nat
          /\ x > q => x \div q > 0
          /\ x > q /\ x % q = 0 => x \div q - 1 \in Nat \ {0}
    <3> TAKE x \in Nat, q \in Nat \ {0}
    <3>1. x \div q \in Nat
      OBVIOUS
    <3>2. x > q => x \div q > 0
      OBVIOUS
    <3>3. x > q /\ x % q = 0 => x \div q > 1
      OBVIOUS
    <3> QED
      BY <3>1, <3>2, <3>3
  <2>2. \/ n = exact \div Second
        \/ exact > Second /\ exact % Second = 0 /\ n = exact \div Second - 1
    BY DEF TokensToAdd, exact
  <2>3. /\ exact \div Second \in Nat
        /\ exact > Second => exact \div Second > 0
        /\ exact > Second /\ exact % Second = 0 => exact \div Second - 1 \in Nat \ {0}
    BY <1>1, <1>2, <2>1
  <2> QED
    BY <2>2, <2>3
<1>5. Min({tokens + n, config.burst})
        = IF tokens + n <= config.burst THEN tokens + n ELSE config.burst
  BY <1>1, <1>4, LesserOfTwo
<1> HIDE DEF exact
<1> QED
  BY <1>1, <1>2, <1>3, <1>4, <1>5

\* A new limiter has granted nothing.
LEMMA LimiterInitInv ==
    ASSUME LimiterInit
    PROVE  LimiterInv
<1>1. config.burst \in Nat \ {0}
  BY LimiterAssumption DEF LimiterInit, Config
<1>2. Horizon \in Nat /\ Second \in Nat \ {0}
  BY HorizonLong, LimiterAssumption
<1>3. Len(recent) = 0 /\ recent \in Seq(0 .. Second - 1)
  BY EmptySeq DEF LimiterInit
<1> QED
  BY <1>1, <1>2, <1>3
  DEF LimiterInv, LimiterTypeOK, EmptiedByCommand, Spaced, LimiterInit, Never

\* A second that passes, a grant and a refusal keep the invariant.
LEMMA LimiterStep ==
    ASSUME LimiterInv, [LimiterNext]_(limiterVars)
    PROVE  LimiterInv'
<1>n. /\ config.rate \in Nat \ {0} /\ config.burst \in Nat \ {0}
      /\ Second \in Nat \ {0} /\ Horizon \in Nat /\ Horizon >= Second
      /\ CommandDelay \in Nat \ {0} /\ CommandDelay <= Second
      /\ tokens \in Nat /\ tokens <= config.burst
      /\ sinceRefill \in Nat /\ sinceRefill <= Horizon
      /\ sinceCommand \in Int /\ sinceCommand <= Horizon
      /\ sinceCommand = Never \/ sinceCommand \in Nat
      /\ Len(recent) \in Nat /\ DOMAIN recent = 1 .. Len(recent)
      /\ \A i \in 1 .. Len(recent) : recent[i] \in 0 .. Second - 1
  BY Numbers DEF LimiterInv
<1>r. \A left \in Refill :
        /\ left.tokens \in 0 .. config.burst
        /\ left.since \in 0 .. Horizon
        /\ left.tokens = 0 => tokens = 0 /\ left.since = sinceRefill
  BY Refilled DEF LimiterInv
<1>t. LimiterTypeOK
  BY DEF LimiterInv
<1>1. CASE Allow
  <2>a. PICK left \in Refill :
          /\ sinceRefill' = left.since /\ config' = config
          /\ \/ Grants(left) /\ tokens' = left.tokens - 1 /\ sinceCommand' = 0
               /\ recent' = Append(recent, 0)
             \/ tokens' = left.tokens /\ UNCHANGED <<sinceCommand, recent>>
    BY <1>1 DEF Allow
  <2>r. /\ left.tokens \in 0 .. config.burst
        /\ left.since \in 0 .. Horizon
        /\ left.tokens = 0 => tokens = 0 /\ left.since = sinceRefill
    BY <1>r
  <2>1. CASE Grants(left) /\ tokens' = left.tokens - 1 /\ sinceCommand' = 0
                /\ recent' = Append(recent, 0)
    <3>1. /\ config' = config /\ sinceRefill' = left.since
          /\ left.tokens > 0
      BY <2>a, <2>1 DEF Grants
    <3>2. LimiterTypeOK'
      <4>1. 0 \in 0 .. Second - 1 /\ 0 \in Never .. Horizon
        BY <1>n DEF Never
      <4>2. recent' \in Seq(0 .. Second - 1)
        BY <1>t, <2>1, <4>1, AppendProperties DEF LimiterTypeOK
      <4>3. tokens' \in 0 .. config.burst
        BY <1>n, <2>r, <2>1, <3>1
      <4> QED
        BY <2>r, <1>t, <2>1, <3>1, <4>1, <4>2, <4>3 DEF LimiterTypeOK
    <3>3. EmptiedByCommand'
      BY <2>r, <2>1, <3>1 DEF EmptiedByCommand, Never
    <3>4. Spaced'
      <4>1. CommandDelay' = CommandDelay
        BY <3>1 DEF CommandDelay
      <4>2. Len(recent') = Len(recent) + 1
        BY <1>t, <1>n, <2>1, AppendProperties DEF LimiterTypeOK
      <4>3. ASSUME NEW i \in 1 .. Len(recent')
            PROVE  recent'[i] >= 0 + (Len(recent') - i) * CommandDelay
        <5>1. CASE i = Len(recent) + 1
          <6>1. recent'[i] = 0
            BY <1>t, <2>1, <5>1, AppendProperties DEF LimiterTypeOK
          <6>2. (Len(recent') - i) * CommandDelay = 0
            BY <1>n, <4>2, <5>1
          <6> QED
            BY <6>1, <6>2
        <5>2. CASE i \in 1 .. Len(recent)
          <6>1. recent'[i] = recent[i]
            BY <1>t, <1>n, <2>1, <5>2, AppendProperties DEF LimiterTypeOK
          <6>2. recent[i] >= sinceCommand + (Len(recent) - i) * CommandDelay
            BY <5>2 DEF LimiterInv, Spaced
          <6>3. sinceCommand >= CommandDelay
            <7>1. recent # <<>>
              BY <1>n, <5>2, EmptySeq
            <7> QED
              BY <2>1, <7>1 DEF LimiterInv, Spaced, Grants, FarEnough
          <6>4. \A n \in Nat, d \in Nat : (n + 1) * d = n * d + d /\ n * d \in Nat
            OBVIOUS
          <6>5. Len(recent) - i \in Nat /\ Len(recent') - i = (Len(recent) - i) + 1
            BY <1>n, <4>2, <5>2
          <6> QED
            BY <1>n, <5>2, <6>1, <6>2, <6>3, <6>4, <6>5
        <5> QED
          BY <1>n, <4>2, <5>1, <5>2
      <4> QED
        BY <2>1, <4>1, <4>3 DEF Spaced, Never
    <3> QED
      BY <3>2, <3>3, <3>4 DEF LimiterInv
  <2>2. CASE tokens' = left.tokens /\ UNCHANGED <<sinceCommand, recent>>
    <3> QED
      BY <1>n, <2>a, <2>r, <2>2
      DEF LimiterInv, LimiterTypeOK, EmptiedByCommand, Spaced, CommandDelay
  <2> QED
    BY <2>a, <2>1, <2>2
<1>2. CASE GetStats
  <2>1. PICK left \in Refill : tokens' = left.tokens /\ sinceRefill' = left.since
    BY <1>2 DEF GetStats
  <2>2. UNCHANGED <<config, sinceCommand, recent>>
    BY <1>2 DEF GetStats
  <2>3. /\ left.tokens \in 0 .. config.burst
        /\ left.since \in 0 .. Horizon
        /\ left.tokens = 0 => tokens = 0 /\ left.since = sinceRefill
    BY <1>r
  <2> QED
    BY <1>n, <2>1, <2>2, <2>3
    DEF LimiterInv, LimiterTypeOK, EmptiedByCommand, Spaced, CommandDelay
<1>3. CASE Reset
  <2>1. Len(recent') = 0 /\ recent' \in Seq(0 .. Second - 1)
    BY <1>3, EmptySeq DEF Reset
  <2> QED
    BY <1>n, <1>3, <2>1
    DEF LimiterInv, LimiterTypeOK, EmptiedByCommand, Spaced, Reset, Never
<1>4. CASE UpdateConfig
  <2>1. Len(recent') = 0 /\ recent' \in Seq(0 .. Second - 1)
    BY <1>4, EmptySeq DEF UpdateConfig
  <2>2. config'.burst \in Nat \ {0}
    BY <1>4, LimiterAssumption DEF UpdateConfig, Config
  <2>3. tokens' = IF tokens <= config'.burst THEN tokens ELSE config'.burst
    BY <1>n, <1>4, <2>2, LesserOfTwo DEF UpdateConfig
  <2>4. config' \in Config /\ UNCHANGED <<sinceRefill, sinceCommand>>
    BY <1>4 DEF UpdateConfig
  <2>5. LimiterTypeOK'
    BY <1>n, <1>t, <2>1, <2>2, <2>3, <2>4 DEF LimiterTypeOK
  <2>6. EmptiedByCommand'
    BY <1>n, <2>2, <2>3, <2>4 DEF LimiterInv, EmptiedByCommand
  <2>7. Spaced'
    BY <1>4, <2>1 DEF Spaced, UpdateConfig
  <2> QED
    BY <2>5, <2>6, <2>7 DEF LimiterInv
<1>5. CASE Tick
  <2>1. PICK dropped \in 0 .. Len(recent) :
          /\ \A i \in DOMAIN recent : i <= dropped <=> recent[i] + 1 >= Second
          /\ recent' = [i \in 1 .. Len(recent) - dropped |-> recent[dropped + i] + 1]
    BY <1>5 DEF Tick
  <2>2. /\ config' = config /\ tokens' = tokens
        /\ sinceRefill' = IF sinceRefill + 1 <= Horizon
                          THEN sinceRefill + 1 ELSE Horizon
        /\ sinceCommand' = IF sinceCommand = Never THEN Never
                           ELSE IF sinceCommand + 1 <= Horizon
                                THEN sinceCommand + 1 ELSE Horizon
    <3>1. sinceRefill + 1 \in Int /\ sinceCommand + 1 \in Int /\ Horizon \in Int
      BY <1>n
    <3>2. Min({sinceRefill + 1, Horizon})
            = IF sinceRefill + 1 <= Horizon THEN sinceRefill + 1 ELSE Horizon
      BY <3>1, LesserOfTwo
    <3>3. Min({sinceCommand + 1, Horizon})
            = IF sinceCommand + 1 <= Horizon THEN sinceCommand + 1 ELSE Horizon
      BY <3>1, LesserOfTwo
    <3>4. /\ config' = config /\ tokens' = tokens
          /\ sinceRefill' = Min({sinceRefill + 1, Horizon})
          /\ sinceCommand' = IF sinceCommand = Never THEN Never
                             ELSE Min({sinceCommand + 1, Horizon})
      BY <1>5, Zenon DEF Tick
    <3> QED
      BY <3>2, <3>3, <3>4
  <2>3. /\ Len(recent) - dropped \in Nat
        /\ \A i \in 1 .. Len(recent) - dropped :
             dropped + i \in 1 .. Len(recent) /\ dropped + i > dropped
    BY <1>n, <2>1
  <2>4. \A i \in 1 .. Len(recent) - dropped : recent[dropped + i] + 1 \in 0 .. Second - 1
    <3> SUFFICES ASSUME NEW i \in 1 .. Len(recent) - dropped
                 PROVE  recent[dropped + i] + 1 \in 0 .. Second - 1
      OBVIOUS
    <3>1. dropped + i \in 1 .. Len(recent) /\ ~(dropped + i <= dropped)
      BY <1>n, <2>1, <2>3
    <3>2. ~(recent[dropped + i] + 1 >= Second) /\ recent[dropped + i] \in 0 .. Second - 1
      BY <1>n, <2>1, <3>1
    <3> QED
      BY <1>n, <3>2
  <2>5. recent' \in Seq(0 .. Second - 1) /\ Len(recent') = Len(recent) - dropped
    BY <2>1, <2>3, <2>4
  <2>6. LimiterTypeOK'
    BY <1>n, <1>t, <2>2, <2>5 DEF LimiterTypeOK, Never
  <2>7. EmptiedByCommand'
    BY <1>n, <2>2 DEF LimiterInv, EmptiedByCommand, Never
  <2>8. Spaced'
    <3>1. CommandDelay' = CommandDelay
      BY <2>2 DEF CommandDelay
    <3>2. recent' # <<>> => sinceCommand' # Never
      <4>1. recent' # <<>> => recent # <<>>
        BY <1>n, <2>1, <2>5, EmptySeq
      <4> QED
        BY <1>n, <2>2, <4>1 DEF LimiterInv, Spaced, Never
    <3>3. ASSUME NEW i \in 1 .. Len(recent')
          PROVE  recent'[i] >= sinceCommand' + (Len(recent') - i) * CommandDelay
      <4>1. recent'[i] = recent[dropped + i] + 1 /\ dropped + i \in 1 .. Len(recent)
        BY <2>1, <2>3, <2>5
      <4>2. recent[dropped + i] >= sinceCommand + (Len(recent) - (dropped + i)) * CommandDelay
        BY <4>1 DEF LimiterInv, Spaced
      <4>3. Len(recent) - (dropped + i) = Len(recent') - i /\ Len(recent') - i \in Nat
        BY <1>n, <2>1, <2>3, <2>5
      <4>4. (Len(recent') - i) * CommandDelay \in Nat
        BY <1>n, <4>3
      <4>5. sinceCommand' <= sinceCommand + 1
        BY <1>n, <2>2
      <4> DEFINE rest == (Len(recent') - i) * CommandDelay
      <4>6. recent[dropped + i] >= sinceCommand + rest /\ rest \in Nat
        BY <4>2, <4>3, <4>4
      <4> HIDE DEF rest
      <4>7. recent'[i] >= sinceCommand' + rest
        BY <1>n, <2>2, <4>1, <4>5, <4>6
      <4> QED
        BY <4>7 DEF rest
    <3> QED
      BY <3>1, <3>2, <3>3 DEF Spaced
  <2> QED
    BY <2>6, <2>7, <2>8 DEF LimiterInv
<1>6. CASE UNCHANGED limiterVars
  BY <1>6 DEF limiterVars, LimiterInv, LimiterTypeOK, EmptiedByCommand, Spaced, CommandDelay
<1> QED
  BY <1>1, <1>2, <1>3, <1>4, <1>5, <1>6 DEF LimiterNext

\* RateKept: whoever polls, resets or reconfigures the limiter, and whenever, from
\* one reset or new configuration to the next no second holds more grants than
\* MaxCommandsPerSecond, or one more when the delay is cut short
\* (rate_limiter.go:34-60, 131).
THEOREM NeverMoreThanTheRate == LimiterSpec => []RateKept
<1>1. LimiterInv => RateKept
  <2> DEFINE rest == Second % config.rate
             most == config.rate + (IF rest = 0 THEN 0 ELSE 1)
  <2> SUFFICES ASSUME LimiterInv PROVE Len(recent) <= most
    BY DEF LimiterInv, RateKept
  <2>1. /\ config.rate \in Nat \ {0} /\ Second \in Nat \ {0}
        /\ CommandDelay \in Nat \ {0}
        /\ rest \in Nat /\ rest <= CommandDelay
        /\ config.rate * CommandDelay + rest = Second
    BY Numbers DEF LimiterInv
  <2>t. /\ sinceCommand = Never \/ sinceCommand \in Nat
        /\ Len(recent) \in Nat
        /\ \A i \in 1 .. Len(recent) : recent[i] \in 0 .. Second - 1
    BY Numbers DEF LimiterInv
  <2> HIDE DEF rest
  <2>2. CASE Len(recent) = 0
    BY <2>1, <2>t, <2>2
  <2>3. CASE Len(recent) > 0
    <3>1. 1 \in 1 .. Len(recent) /\ recent # <<>>
      BY <2>1, <2>t, <2>3, EmptySeq
    <3>2. sinceCommand \in Nat
      BY <2>1, <2>t, <3>1 DEF LimiterInv, Spaced
    <3>3. recent[1] >= sinceCommand + (Len(recent) - 1) * CommandDelay
      BY <3>1 DEF LimiterInv, Spaced
    <3>4. \A n \in Nat, d \in Nat \ {0}, r \in Nat : n * d < r * d => n < r
      OBVIOUS
    <3>5. Len(recent) - 1 \in Nat /\ (Len(recent) - 1) * CommandDelay \in Nat
      <4>1. \A n, d \in Nat : n * d \in Nat
        OBVIOUS
      <4>2. Len(recent) - 1 \in Nat /\ CommandDelay \in Nat
        BY <2>1, <2>t, <2>3
      <4> QED
        BY <4>1, <4>2, Zenon
    <3>6. (Len(recent) - 1) * CommandDelay < config.rate * CommandDelay + rest
      <4>1. config.rate * CommandDelay \in Nat
        BY <2>1
      <4> QED
        BY <2>1, <2>t, <3>1, <3>2, <3>3, <3>5, <4>1
    <3>7. most \in Nat /\ config.rate * CommandDelay + rest <= most * CommandDelay
      <4>1. \A n, d, x \in Nat : /\ n * d \in Nat
                               /\ x <= d => n * d + x <= (n + 1) * d
        OBVIOUS
      <4>2. CASE rest = 0
        BY <2>1, <4>1, <4>2
      <4>3. CASE rest # 0
        BY <2>1, <4>1, <4>3
      <4> QED
        BY <4>2, <4>3
    <3>8. (Len(recent) - 1) * CommandDelay < most * CommandDelay
      <4>1. \A x, y, z \in Int : x < y /\ y <= z => x < z
        OBVIOUS
      <4>2. most * CommandDelay \in Int /\ config.rate * CommandDelay + rest \in Int
        BY <2>1, <3>7
      <4> QED
        BY <3>5, <3>6, <3>7, <4>1, <4>2
    <3>9. Len(recent) - 1 < most
      BY <2>1, <2>t, <3>4, <3>5, <3>7, <3>8
    <3> HIDE DEF most
    <3> QED
      BY <2>1, <2>t, <3>7, <3>9
  <2> QED
    BY <2>t, <2>2, <2>3
<1> QED
  BY <1>1, LimiterInitInv, LimiterStep, PTL DEF LimiterSpec

\* NeverStarved: the bucket is no second limit: what comes more than the minimal
\* distance after the last command has a token, however often the limiter was
\* polled, which moves lastRefill, and whatever it was set to before
\* (rate_limiter.go:34-60, 120-140).
THEOREM DistanceSuffices == LimiterSpec => []NeverStarved
<1>1. LimiterInv => NeverStarved
  <2> SUFFICES ASSUME LimiterInv, NEW left \in Refill,
                      sinceCommand = Never \/ sinceCommand > CommandDelay
               PROVE  left.tokens > 0 /\ FarEnough
    BY DEF NeverStarved, Grants
  <2>1. /\ left.tokens \in 0 .. config.burst
        /\ left.tokens = 0 => tokens = 0
        /\ sinceRefill > CommandDelay => left.tokens > 0
    BY Refilled DEF LimiterInv
  <2>2. /\ CommandDelay \in Nat /\ sinceRefill \in Nat /\ sinceCommand \in Int
        /\ config.burst \in Nat
    BY Numbers DEF LimiterInv
  <2> QED
    BY <2>1, <2>2 DEF LimiterInv, EmptiedByCommand, FarEnough
<1> QED
  BY <1>1, LimiterInitInv, LimiterStep, PTL DEF LimiterSpec

-----------------------------------------------------------------------------
(***************************************************************************)
(* The command queue.                                                      *)
(***************************************************************************)
Distinct(s) == \A i, j \in 1 .. Len(s) : s[i] = s[j] => i = j

\* The elements of a sequence.
LEMMA Elements ==
    ASSUME NEW S, NEW s \in Seq(S)
    PROVE  /\ Len(s) \in Nat /\ DOMAIN s = 1 .. Len(s)
           /\ \A i \in 1 .. Len(s) : s[i] \in S
           /\ ToSet(s) = {s[i] : i \in 1 .. Len(s)}
           /\ \A c : Contains(s, c) <=> c \in ToSet(s)
<1>1. Len(s) \in Nat /\ DOMAIN s = 1 .. Len(s)
  BY LenProperties
<1>2. \A i \in 1 .. Len(s) : s[i] \in S
  BY ElementOfSeq
<1>3. ToSet(s) = {s[i] : i \in 1 .. Len(s)}
  BY <1>1, Zenon DEF ToSet
<1>4. \A c : Contains(s, c) <=> c \in ToSet(s)
  BY <1>3, Zenon DEF Contains
<1> QED
  BY <1>1, <1>2, <1>3, <1>4

\* An empty sequence has no elements.
LEMMA NothingIn == ToSet(<<>>) = {}
BY DEF ToSet

\* A new element at the end,
LEMMA AddedLast ==
    ASSUME NEW S, NEW s \in Seq(S), NEW e \in S
    PROVE  /\ Append(s, e) \in Seq(S) /\ ToSet(Append(s, e)) = ToSet(s) \cup {e}
           /\ Len(Append(s, e)) = Len(s) + 1 /\ Append(s, e)[Len(s) + 1] = e
           /\ \A i \in 1 .. Len(s) : Append(s, e)[i] = s[i]
           /\ Distinct(s) /\ e \notin ToSet(s) => Distinct(Append(s, e))
<1> DEFINE t == Append(s, e)
<1>1. /\ t \in Seq(S) /\ Len(t) = Len(s) + 1 /\ t[Len(s) + 1] = e
      /\ \A i \in 1 .. Len(s) : t[i] = s[i]
  BY AppendProperties
<1>2. /\ Len(s) \in Nat
      /\ ToSet(s) = {s[i] : i \in 1 .. Len(s)}
      /\ ToSet(t) = {t[i] : i \in 1 .. Len(t)}
  BY <1>1, Elements
<1> HIDE DEF t
<1>3. ToSet(t) = ToSet(s) \cup {e}
  BY <1>1, <1>2
<1>4. Distinct(s) /\ e \notin ToSet(s) => Distinct(t)
  BY <1>1, <1>2 DEF Distinct
<1> QED
  BY <1>1, <1>3, <1>4 DEF t

\* at the head,
LEMMA AddedFirst ==
    ASSUME NEW S, NEW s \in Seq(S), NEW e \in S
    PROVE  /\ <<e>> \o s \in Seq(S) /\ ToSet(<<e>> \o s) = ToSet(s) \cup {e}
           /\ Len(<<e>> \o s) = Len(s) + 1 /\ (<<e>> \o s)[1] = e
           /\ \A i \in 1 .. Len(s) : (<<e>> \o s)[i + 1] = s[i]
           /\ Distinct(s) /\ e \notin ToSet(s) => Distinct(<<e>> \o s)
<1> DEFINE t == <<e>> \o s
<1>1. <<e>> \in Seq(S) /\ Len(<<e>>) = 1 /\ <<e>>[1] = e /\ Len(s) \in Nat
  BY LenProperties
<1>2. /\ t \in Seq(S) /\ Len(t) = Len(s) + 1
      /\ \A i \in 1 .. Len(t) : t[i] = IF i <= 1 THEN <<e>>[i] ELSE s[i - 1]
  BY <1>1, ConcatProperties
<1> HIDE DEF t
<1>3. /\ t[1] = e /\ \A i \in 1 .. Len(s) : t[i + 1] = s[i]
      /\ \A i \in 2 .. Len(t) : i - 1 \in 1 .. Len(s) /\ t[i] = s[i - 1]
  BY <1>1, <1>2
<1>4. /\ ToSet(s) = {s[i] : i \in 1 .. Len(s)}
      /\ ToSet(t) = {t[i] : i \in 1 .. Len(t)}
  BY <1>2, Elements
<1>5. ToSet(t) = ToSet(s) \cup {e}
  <2>1. \A i \in 1 .. Len(t) : i = 1 \/ i \in 2 .. Len(t)
    BY <1>1, <1>2
  <2>2. 1 \in 1 .. Len(t) /\ \A i \in 1 .. Len(s) : i + 1 \in 1 .. Len(t)
    BY <1>1, <1>2
  <2>3. ASSUME NEW x \in ToSet(t)
        PROVE  x \in ToSet(s) \cup {e}
    <3>1. PICK i \in 1 .. Len(t) : x = t[i]
      BY <1>4, Zenon
    <3> QED
      BY <1>3, <1>4, <2>1, <3>1, Zenon
  <2>4. \A i \in 1 .. Len(s) : s[i] \in ToSet(t)
    BY <1>3, <1>4, <2>2, Zenon
  <2>5. e \in ToSet(t)
    BY <1>3, <1>4, <2>2, Zenon
  <2> QED
    BY <1>4, <2>3, <2>4, <2>5, Zenon
<1>6. Distinct(s) /\ e \notin ToSet(s) => Distinct(t)
  <2> SUFFICES ASSUME Distinct(s), e \notin ToSet(s),
                      NEW i \in 1 .. Len(t), NEW j \in 1 .. Len(t), t[i] = t[j]
               PROVE  i = j
    BY DEF Distinct
  <2>1. (i = 1 \/ i \in 2 .. Len(t)) /\ (j = 1 \/ j \in 2 .. Len(t))
    BY <1>1, <1>2
  <2>2. \A k \in 1 .. Len(s) : s[k] # e
    BY <1>4
  <2>3. CASE i = 1 /\ j = 1
    BY <2>3
  <2>4. CASE i \in 2 .. Len(t) /\ j \in 2 .. Len(t)
    <3>1. i - 1 \in 1 .. Len(s) /\ j - 1 \in 1 .. Len(s) /\ s[i - 1] = s[j - 1]
      BY <1>3, <2>4
    <3>2. i - 1 = j - 1
      BY <3>1 DEF Distinct
    <3> QED
      BY <2>4, <3>2
  <2>5. CASE i = 1 /\ j \in 2 .. Len(t)
    BY <1>3, <2>2, <2>5, Zenon
  <2>6. CASE i \in 2 .. Len(t) /\ j = 1
    BY <1>3, <2>2, <2>6, Zenon
  <2> QED
    BY <2>1, <2>3, <2>4, <2>5, <2>6
<1> QED
  BY <1>2, <1>3, <1>5, <1>6 DEF t

\* and the first one taken.
LEMMA FirstTaken ==
    ASSUME NEW S, NEW s \in Seq(S), s # <<>>
    PROVE  /\ Tail(s) \in Seq(S) /\ Head(s) = s[1] /\ Head(s) \in ToSet(s)
           /\ Len(Tail(s)) = Len(s) - 1 /\ \A i \in 1 .. Len(s) - 1 : Tail(s)[i] = s[i + 1]
           /\ ToSet(s) = ToSet(Tail(s)) \cup {Head(s)}
           /\ Distinct(s) => Distinct(Tail(s)) /\ Head(s) \notin ToSet(Tail(s))
<1> DEFINE t == Tail(s)
<1>1. Len(s) \in Nat \ {0}
  BY EmptySeq, LenProperties
<1>2. /\ t \in Seq(S) /\ Len(t) = Len(s) - 1 /\ Head(s) = s[1]
      /\ \A i \in 1 .. Len(t) : t[i] = s[i + 1]
  BY HeadTailProperties
<1> HIDE DEF t
<1>4. /\ ToSet(s) = {s[i] : i \in 1 .. Len(s)}
      /\ ToSet(t) = {t[i] : i \in 1 .. Len(t)}
  BY <1>2, Elements
<1>5. /\ 1 \in 1 .. Len(s) /\ \A i \in 1 .. Len(t) : i + 1 \in 1 .. Len(s)
      /\ \A i \in 1 .. Len(s) : i = 1 \/ i - 1 \in 1 .. Len(t)
  BY <1>1, <1>2
<1>6. \A i \in 1 .. Len(s) : i = 1 \/ s[i] = t[i - 1]
  BY <1>2, <1>5
<1>7. ToSet(s) = ToSet(t) \cup {s[1]}
  BY <1>2, <1>4, <1>5, <1>6
<1>8. Distinct(s) => Distinct(t) /\ s[1] \notin ToSet(t)
  BY <1>1, <1>2, <1>4, <1>5 DEF Distinct
<1> QED
  BY <1>2, <1>4, <1>5, <1>7, <1>8 DEF t

\* Distinct elements are as many as there are places.
LEMMA AsManyElements ==
    ASSUME NEW S, NEW s \in Seq(S), Distinct(s)
    PROVE  IsFiniteSet(ToSet(s)) /\ Cardinality(ToSet(s)) = Len(s)
<1>1. /\ Len(s) \in Nat /\ DOMAIN s = 1 .. Len(s)
      /\ ToSet(s) = {s[i] : i \in 1 .. Len(s)}
  BY Elements
<1>2. IsFiniteSet(1 .. Len(s)) /\ Cardinality(1 .. Len(s)) = Len(s)
  BY <1>1, FS_Interval
<1>3. ExistsBijection(1 .. Len(s), ToSet(s))
  <2> DEFINE f == [i \in 1 .. Len(s) |-> s[i]]
  <2>1. f \in Bijection(1 .. Len(s), ToSet(s))
    BY <1>1 DEF Bijection, Injection, Surjection, IsInjective, Distinct
  <2> QED
    BY <2>1 DEF ExistsBijection
<1> QED
  BY <1>2, <1>3, FS_Bijection

\* The places chosen in their order are all those kept.
Rising(place, n) == \A i, j \in 1 .. n : i < j => place[i] < place[j]

Chosen(place, n, kept, m) ==
    /\ m \in Nat /\ kept \subseteq 1 .. m /\ Cardinality(kept) = n
    /\ place \in [1 .. n -> kept] /\ Rising(place, n)

\* A rising function onto the places kept meets each of them once.
LEMMA PlacesKept ==
    ASSUME NEW kept, NEW m, NEW n, NEW place, Chosen(place, n, kept, m)
    PROVE  /\ n \in Nat /\ \A i \in 1 .. n : place[i] \in kept
           /\ \A i, j \in 1 .. n : place[i] = place[j] => i = j
           /\ \A k \in kept : \E i \in 1 .. n : place[i] = k
<1> USE DEF Chosen
<1>1. IsFiniteSet(kept) /\ n \in Nat
  <2>1. IsFiniteSet(1 .. m)
    BY FS_Interval
  <2>2. IsFiniteSet(kept)
    BY <2>1, FS_Subset
  <2> QED
    BY <2>2, FS_CardinalityType
<1>2. \A i \in 1 .. n : place[i] \in kept /\ place[i] \in Int
  <2> SUFFICES ASSUME NEW i \in 1 .. n PROVE place[i] \in kept /\ place[i] \in Int
    OBVIOUS
  <2>1. place[i] \in kept
    BY Zenon
  <2>2. place[i] \in 1 .. m
    BY <2>1
  <2> QED
    BY <2>1, <2>2
<1>3. \A i, j \in 1 .. n : place[i] = place[j] => i = j
  <2> SUFFICES ASSUME NEW i \in 1 .. n, NEW j \in 1 .. n, i # j
               PROVE  place[i] # place[j]
    OBVIOUS
  <2>1. i < j \/ j < i
    BY <1>1
  <2>2. place[i] < place[j] \/ place[j] < place[i]
    BY <2>1 DEF Rising
  <2>3. place[i] \in Int /\ place[j] \in Int
    BY <1>2
  <2> QED
    BY <2>2, <2>3
<1>4. \A k \in kept : \E i \in 1 .. n : place[i] = k
  <2> DEFINE image == {place[i] : i \in 1 .. n}
  <2>1. image \subseteq kept
    BY <1>2
  <2>2. place \in Bijection(1 .. n, image)
    <3>1. place \in [1 .. n -> image] /\ \A y \in image : \E i \in 1 .. n : place[i] = y
      OBVIOUS
    <3> HIDE DEF image
    <3> QED
      BY <1>3, <3>1 DEF Bijection, Injection, Surjection, IsInjective
  <2>3. IsFiniteSet(1 .. n) /\ Cardinality(1 .. n) = n
    BY <1>1, FS_Interval
  <2> HIDE DEF image
  <2>4. Cardinality(image) = n
    BY <2>2, <2>3, FS_Bijection DEF ExistsBijection
  <2>5. image = kept
    BY <1>1, <2>1, <2>4, FS_Subset
  <2> QED
    BY <2>5 DEF image
<1> QED
  BY <1>1, <1>2, <1>3, <1>4

ClosedUp(s, t, place, G) ==
    /\ \A i \in 1 .. Len(t) : place[i] \in 1 .. Len(s) /\ s[place[i]] \notin G
    /\ \A i, j \in 1 .. Len(t) : place[i] = place[j] => i = j
    /\ \A k \in 1 .. Len(s) : s[k] \notin G => \E i \in 1 .. Len(t) : place[i] = k
    /\ \A i \in 1 .. Len(t) : t[i] = s[place[i]]

\* What is kept of a sequence.
LEMMA KeptInOrder ==
    ASSUME NEW S, NEW s \in Seq(S), NEW G, NEW t \in Seq(S), NEW place,
           ClosedUp(s, t, place, G)
    PROVE  /\ ToSet(t) = ToSet(s) \ G
           /\ Distinct(s) => Distinct(t)
<1>1. /\ ToSet(s) = {s[i] : i \in 1 .. Len(s)}
      /\ ToSet(t) = {t[i] : i \in 1 .. Len(t)}
  BY Elements
<1>2. ASSUME NEW x \in ToSet(t)
      PROVE  x \in ToSet(s) \ G
  <2>1. PICK i \in 1 .. Len(t) : x = t[i]
    BY <1>1, Zenon
  <2>2. place[i] \in 1 .. Len(s) /\ x = s[place[i]] /\ x \notin G
    BY <2>1 DEF ClosedUp
  <2> QED
    BY <1>1, <2>2, Zenon
<1>3. ASSUME NEW x \in ToSet(s) \ G
      PROVE  x \in ToSet(t)
  <2>1. PICK k \in 1 .. Len(s) : x = s[k]
    BY <1>1, Zenon
  <2>2. PICK i \in 1 .. Len(t) : place[i] = k
    BY <2>1 DEF ClosedUp
  <2>3. t[i] = x
    BY <2>1, <2>2, Zenon DEF ClosedUp
  <2> QED
    BY <1>1, <2>3, Zenon
<1>4. Distinct(s) => Distinct(t)
  <2> SUFFICES ASSUME Distinct(s), NEW i \in 1 .. Len(t), NEW j \in 1 .. Len(t), t[i] = t[j]
               PROVE  i = j
    BY Zenon DEF Distinct
  <2>1. s[place[i]] = s[place[j]] /\ place[i] \in 1 .. Len(s) /\ place[j] \in 1 .. Len(s)
    BY Zenon DEF ClosedUp
  <2>2. place[i] = place[j]
    BY <2>1, Zenon DEF Distinct
  <2> QED
    BY <2>2, Zenon DEF ClosedUp
<1> QED
  BY <1>2, <1>3, <1>4, Zenon

-----------------------------------------------------------------------------
(***************************************************************************)
(* A command is in one place.                                              *)
(***************************************************************************)
InHand == {holds[w] : w \in Holding}

\* No two places hold the same command.
Apart ==
    /\ Distinct(queue) /\ Distinct(sent) /\ Distinct(enqueued)
    /\ \A w, v \in Holding : holds[w] = holds[v] => w = v
    /\ ToSet(queue) \cap InHand = {}
    /\ ToSet(queue) \cap ToSet(sent) = {}
    /\ ToSet(queue) \cap gone = {}
    /\ InHand \cap ToSet(sent) = {} /\ InHand \cap gone = {}
    /\ ToSet(sent) \cap gone = {}

Together ==
    ToSet(enqueued) = ToSet(queue) \cup InHand \cup ToSet(sent) \cup gone

\* A goroutine holds a command while it sends, and a command that failed too
\* often is given up.
Hands ==
    /\ \A w \in Workers : holds[w] # Absent <=> pc[w] = "sending"
    /\ \A c \in Cmds : retries[c] = MaxAttempts => c \in gone

QueueInv == QueueTypeOK /\ Apart /\ Together /\ Hands

\* Disjoint sets add up.
LEMMA DisjointUnion ==
    ASSUME NEW A, NEW B, IsFiniteSet(A), IsFiniteSet(B), A \cap B = {}
    PROVE  /\ IsFiniteSet(A \cup B)
           /\ Cardinality(A \cup B) = Cardinality(A) + Cardinality(B)
<1>1. /\ IsFiniteSet(A \cup B)
      /\ Cardinality(A \cup B) = Cardinality(A) + Cardinality(B) - Cardinality(A \cap B)
  BY FS_Union
<1>2. Cardinality({}) = 0 /\ Cardinality(A) \in Nat /\ Cardinality(B) \in Nat
  BY FS_EmptySet, FS_CardinalityType
<1>3. Cardinality(A \cap B) = 0
  BY <1>2, Zenon
<1> QED
  BY <1>1, <1>2, <1>3

\* The commands of each place, counted, make up those enqueued.
LEMMA CountedOnce ==
    ASSUME QueueInv
    PROVE  InOnePlace
<1> DEFINE W == ToSet(queue)
           S == ToSet(sent)
           E == ToSet(enqueued)
<1>1. /\ IsFiniteSet(W) /\ Cardinality(W) = Len(queue)
      /\ IsFiniteSet(S) /\ Cardinality(S) = Len(sent)
      /\ IsFiniteSet(E) /\ Cardinality(E) = Len(enqueued)
  BY AsManyElements DEF QueueInv, Apart, QueueTypeOK
<1>2. IsFiniteSet(InHand) /\ Cardinality(InHand) = Cardinality(Holding)
  <2>1. IsFiniteSet(Workers)
    BY FS_Interval, QueueAssumption DEF Workers
  <2>2. IsFiniteSet(Holding)
    BY <2>1, FS_Subset DEF Holding
  <2>3. ExistsBijection(Holding, InHand)
    <3> DEFINE f == [w \in Holding |-> holds[w]]
    <3>1. f \in [Holding -> InHand] /\ \A c \in InHand : \E w \in Holding : f[w] = c
      BY DEF InHand
    <3>2. \A w, v \in Holding : f[w] = f[v] => w = v
      BY DEF QueueInv, Apart
    <3> HIDE DEF f
    <3>3. f \in Bijection(Holding, InHand)
      BY <3>1, <3>2 DEF Bijection, Injection, Surjection, IsInjective
    <3> QED
      BY <3>3 DEF ExistsBijection
  <2> QED
    BY <2>2, <2>3, FS_Bijection
<1>3. E = W \cup InHand \cup S \cup gone
  BY DEF QueueInv, Together
<1>4. IsFiniteSet(gone)
  BY <1>1, <1>3, FS_Subset
<1>5. /\ W \cap InHand = {} /\ (W \cup InHand) \cap S = {}
      /\ (W \cup InHand \cup S) \cap gone = {}
  BY DEF QueueInv, Apart
<1> HIDE DEF W, S, E
<1>7. IsFiniteSet(W \cup InHand) /\ Cardinality(W \cup InHand) = Cardinality(W) + Cardinality(InHand)
  BY <1>1, <1>2, <1>5, DisjointUnion
<1>8. /\ IsFiniteSet(W \cup InHand \cup S)
      /\ Cardinality(W \cup InHand \cup S) = Cardinality(W \cup InHand) + Cardinality(S)
  BY <1>1, <1>5, <1>7, DisjointUnion
<1>9. Cardinality(E) = Cardinality(W \cup InHand \cup S) + Cardinality(gone)
  BY <1>3, <1>4, <1>5, <1>8, DisjointUnion
<1>10. Len(queue) + Cardinality(Holding) + Len(sent) + Cardinality(gone) = Len(enqueued)
  BY <1>1, <1>2, <1>7, <1>8, <1>9
<1>11. ToSet(enqueued) = ToSet(queue) \cup InHand \cup ToSet(sent) \cup gone
  BY DEF QueueInv, Together
<1>12. QueueTypeOK
  BY DEF QueueInv
<1> QED
  BY <1>10, <1>11, <1>12 DEF InHand, InOnePlace

\* A new queue holds nothing.
LEMMA QueueInitInv ==
    ASSUME QueueInit
    PROVE  QueueInv
<1>1. /\ Len(queue) = 0 /\ Len(sent) = 0 /\ Len(enqueued) = 0
      /\ queue \in Seq(Cmds) /\ sent \in Seq(Cmds) /\ enqueued \in Seq(Cmds)
  BY EmptySeq DEF QueueInit
<1>2. /\ ToSet(queue) = {} /\ ToSet(sent) = {} /\ ToSet(enqueued) = {}
  BY Zenon, NothingIn DEF QueueInit
<1>3. Holding = {} /\ InHand = {} /\ gone = {}
  BY DEF Holding, InHand, QueueInit
<1>4. QueueTypeOK
  <2>1. /\ retries \in [Cmds -> 0 .. MaxAttempts]
        /\ starting \in Nat /\ stopping \in Nat
        /\ pc \in [Workers -> {"off", "idle", "sending", "done"}]
        /\ holds \in [Workers -> Cmds \cup {Absent}]
    BY DEF QueueInit, MaxAttempts
  <2>2. isRunning \in BOOLEAN /\ closed \in BOOLEAN /\ panicked \in BOOLEAN
    BY Zenon DEF QueueInit
  <2> QED
    BY <1>1, <1>3, <2>1, <2>2, Zenon DEF QueueTypeOK
<1>5. Apart /\ Together
  BY <1>1, <1>2, <1>3 DEF Apart, Together, Distinct
<1>6. Hands
  BY DEF Hands, QueueInit, MaxAttempts
<1> QED
  BY <1>4, <1>5, <1>6 DEF QueueInv

\* Steps that move no command.
LEMMA NothingMoved ==
    ASSUME QueueInv, UNCHANGED <<queue, retries, holds, enqueued, sent, gone>>,
           \A w \in Workers : pc'[w] = "sending" <=> pc[w] = "sending"
    PROVE  Apart' /\ Together' /\ Hands'
<1>1. Holding' = Holding /\ InHand' = InHand
  BY DEF Holding, InHand
<1>2. Apart'
  BY <1>1 DEF QueueInv, Apart, Distinct
<1>3. Together'
  BY <1>1 DEF QueueInv, Together
<1>4. Hands'
  BY DEF QueueInv, Hands
<1> QED
  BY <1>2, <1>3, <1>4

\* Starting and stopping move no command.
LEMMA WorkerStep ==
    ASSUME QueueInv,
           Start \/ Spawn \/ Stop \/ CloseStop
             \/ \E w \in Workers : WorkerExits(w)
    PROVE  QueueInv'
<1>1. /\ UNCHANGED <<queue, retries, holds, enqueued, sent, gone>>
      /\ pc' \in [Workers -> {"off", "idle", "sending", "done"}]
      /\ \A w \in Workers : pc'[w] = "sending" <=> pc[w] = "sending"
  <2>1. pc \in [Workers -> {"off", "idle", "sending", "done"}]
    BY DEF QueueInv, QueueTypeOK
  <2>2. CASE Start \/ Stop \/ CloseStop
    BY <2>1, <2>2 DEF Start, Stop, CloseStop, lifecycle, workers
  <2>3. CASE Spawn
    BY <2>1, <2>3 DEF Spawn
  <2>4. CASE \E w \in Workers : WorkerExits(w)
    BY <2>1, <2>4 DEF WorkerExits
  <2> QED
    BY <2>2, <2>3, <2>4
<1>2. /\ isRunning' \in BOOLEAN /\ closed' \in BOOLEAN /\ starting' \in Nat /\ stopping' \in Nat
      /\ panicked' \in BOOLEAN
  <2>1. /\ isRunning \in BOOLEAN /\ closed \in BOOLEAN /\ starting \in Nat /\ stopping \in Nat
        /\ panicked \in BOOLEAN
    BY DEF QueueInv, QueueTypeOK
  <2>2. CASE Start
    BY <2>1, <2>2 DEF Start
  <2>3. CASE Stop
    <3>1. stopping' \in Nat
      BY <2>1, <2>3 DEF Stop
    <3> QED
      BY <2>1, <2>3, <3>1, Zenon DEF Stop
  <2>4. CASE CloseStop
    <3>1. starting' \in Nat /\ stopping' \in Nat /\ isRunning' = isRunning
      BY <2>1, <2>4 DEF CloseStop
    <3>2. closed' = TRUE /\ panicked' = closed
      BY <2>4 DEF CloseStop
    <3> QED
      BY <2>1, <3>1, <3>2
  <2>5. CASE Spawn
    <3>1. starting' \in Nat
      BY <2>1, <2>5 DEF Spawn
    <3> QED
      BY <2>1, <2>5, <3>1, Zenon DEF Spawn
  <2>6. CASE \E w \in Workers : WorkerExits(w)
    BY <2>1, <2>6 DEF WorkerExits, lifecycle
  <2> QED
    BY <2>2, <2>3, <2>4, <2>5, <2>6
<1>3. QueueTypeOK'
  BY <1>1, <1>2 DEF QueueInv, QueueTypeOK
<1> QED
  BY <1>1, <1>3, NothingMoved DEF QueueInv

\* What else the steps leave alone.
LEMMA Others ==
    ASSUME QueueInv, UNCHANGED lifecycle
    PROVE  /\ isRunning' \in BOOLEAN /\ closed' \in BOOLEAN /\ starting' \in Nat
           /\ stopping' \in Nat /\ panicked' \in BOOLEAN
BY DEF QueueInv, QueueTypeOK, lifecycle

\* A new command gets one place.
LEMMA EnqueueStep ==
    ASSUME QueueInv, NEW c \in Cmds,
           Enqueue(c) \/ EnqueuePriority(c)
    PROVE  QueueInv'
<1>1. /\ UNCHANGED <<retries, pc, holds, sent, gone>> /\ UNCHANGED lifecycle
      /\ enqueued' = Append(enqueued, c) /\ New(c)
      /\ queue' = Append(queue, c) \/ queue' = <<c>> \o queue
  BY DEF Enqueue, EnqueuePriority, workers
<1>2. /\ queue \in Seq(Cmds) /\ enqueued \in Seq(Cmds)
      /\ Distinct(queue) /\ Distinct(enqueued)
  BY DEF QueueInv, QueueTypeOK, Apart
<1>3. c \notin ToSet(enqueued)
  BY <1>1, <1>2, Elements DEF New
<1>4. /\ c \notin ToSet(queue) /\ c \notin InHand /\ c \notin ToSet(sent)
      /\ c \notin gone
  BY <1>3 DEF QueueInv, Together
<1>5. /\ enqueued' \in Seq(Cmds) /\ Distinct(enqueued')
      /\ ToSet(enqueued') = ToSet(enqueued) \cup {c}
  BY <1>1, <1>2, <1>3, AddedLast
<1>6. /\ queue' \in Seq(Cmds) /\ Distinct(queue')
      /\ ToSet(queue') = ToSet(queue) \cup {c}
  <2>1. CASE queue' = Append(queue, c)
    BY <1>2, <1>4, <2>1, AddedLast
  <2>2. CASE queue' = <<c>> \o queue
    BY <1>2, <1>4, <2>2, AddedFirst
  <2> QED
    BY <1>1, <2>1, <2>2
<1>7. Holding' = Holding /\ InHand' = InHand
  BY <1>1 DEF Holding, InHand
<1>8. QueueTypeOK'
  BY <1>1, <1>5, <1>6, Others DEF QueueInv, QueueTypeOK
<1>9. Apart'
  <2>1. Distinct(sent') /\ \A w, v \in Holding' : holds'[w] = holds'[v] => w = v
    BY <1>1, <1>7 DEF QueueInv, Apart
  <2> QED
    BY <1>1, <1>4, <1>5, <1>6, <1>7, <2>1 DEF QueueInv, Apart
<1>10. Together'
  BY <1>1, <1>5, <1>6, <1>7 DEF QueueInv, Together
<1>11. Hands'
  BY <1>1 DEF QueueInv, Hands
<1> QED
  BY <1>8, <1>9, <1>10, <1>11 DEF QueueInv

\* What Discard leaves of the queue.
LEMMA WaitingKept ==
    ASSUME QueueInv, NEW S, Discard(S)
    PROVE  /\ queue' \in Seq(Cmds) /\ Distinct(queue')
           /\ ToSet(queue') = ToSet(queue) \ S
           /\ \E n \in Nat : \E place :
                /\ Len(queue') = n /\ Rising(place, n)
                /\ \A i \in 1 .. n : place[i] \in 1 .. Len(queue) /\ queue'[i] = queue[place[i]]
<1>2. queue \in Seq(Cmds) /\ Distinct(queue)
  BY DEF QueueInv, QueueTypeOK, Apart
<1>A. CloseUp(S)
  BY Zenon DEF Discard
<1>B. PICK n : n = Cardinality(Kept(S))
  OBVIOUS
<1>C. PICK place \in [1 .. n -> Kept(S)] :
        /\ \A i, j \in 1 .. n : i < j => place[i] < place[j]
        /\ queue' = [i \in 1 .. n |-> queue[place[i]]]
  BY <1>A, <1>B DEF CloseUp
<1>3. /\ n = Cardinality(Kept(S)) /\ place \in [1 .. n -> Kept(S)]
      /\ Rising(place, n)
      /\ queue' = [i \in 1 .. n |-> queue[place[i]]]
  BY <1>B, <1>C, Zenon DEF Rising
<1>4. /\ n \in Nat
      /\ \A i \in 1 .. n : place[i] \in 1 .. Len(queue) /\ queue[place[i]] \notin S
      /\ \A i, j \in 1 .. n : place[i] = place[j] => i = j
      /\ \A k \in 1 .. Len(queue) : queue[k] \notin S => \E i \in 1 .. n : place[i] = k
  <2>1. PICK kept : kept = Kept(S)
    OBVIOUS
  <2>2. Len(queue) \in Nat /\ kept = {i \in 1 .. Len(queue) : queue[i] \notin S}
    BY <1>2, <2>1, Elements DEF Kept
  <2>3. Cardinality(kept) = n /\ place \in [1 .. n -> kept]
    BY <1>3, <2>1, Zenon
  <2>4. kept \subseteq 1 .. Len(queue)
    BY <2>2
  <2>5. /\ n \in Nat /\ \A i \in 1 .. n : place[i] \in kept
        /\ \A i, j \in 1 .. n : place[i] = place[j] => i = j
        /\ \A k \in kept : \E i \in 1 .. n : place[i] = k
    <3>1. Chosen(place, n, kept, Len(queue))
      BY <1>3, <2>2, <2>3, <2>4 DEF Chosen
    <3> QED
      BY <3>1, PlacesKept
  <2> QED
    BY <2>2, <2>5
<1>5. queue' \in Seq(Cmds) /\ Len(queue') = n
  <2>1. \A i \in 1 .. n : queue[place[i]] \in Cmds
    BY <1>2, <1>4, Elements
  <2> QED
    BY <1>3, <1>4, <2>1
<1>6. ClosedUp(queue, queue', place, S)
  <2>1. \A i \in 1 .. n : queue'[i] = queue[place[i]]
    BY <1>3
  <2> QED
    BY <1>4, <1>5, <2>1, Zenon DEF ClosedUp
<1>7. ToSet(queue') = ToSet(queue) \ S /\ Distinct(queue')
  <2>1. PICK t : t = queue'
    OBVIOUS
  <2>2. t \in Seq(Cmds) /\ ClosedUp(queue, t, place, S)
    BY <1>5, <1>6, <2>1
  <2>3. /\ ToSet(t) = ToSet(queue) \ S
        /\ Distinct(queue) => Distinct(t)
    BY <1>2, <2>2, KeptInOrder
  <2> QED
    BY <1>2, <2>1, <2>3
<1> QED
  BY <1>3, <1>4, <1>5, <1>7

\* Cleared and expired commands leave the queue for good.
LEMMA DiscardStep ==
    ASSUME QueueInv, NEW S, Discard(S)
    PROVE  QueueInv'
<1>1. /\ UNCHANGED <<retries, pc, holds, enqueued, sent>> /\ UNCHANGED lifecycle
      /\ gone' = gone \cup (ToSet(queue) \cap S)
  BY DEF Discard, workers
<1>2. queue \in Seq(Cmds)
  BY DEF QueueInv, QueueTypeOK
<1>7. /\ queue' \in Seq(Cmds) /\ Distinct(queue')
      /\ ToSet(queue') = ToSet(queue) \ S
  BY WaitingKept
<1>8. Holding' = Holding /\ InHand' = InHand
  BY <1>1 DEF Holding, InHand
<1>9. QueueTypeOK'
  <2>1. ToSet(queue) \subseteq Cmds
    BY <1>2, Elements
  <2> QED
    BY <1>1, <1>7, <2>1, Others DEF QueueInv, QueueTypeOK
<1>10. Apart'
  <2>1. Distinct(sent') /\ Distinct(enqueued') /\ \A w, v \in Holding' : holds'[w] = holds'[v] => w = v
    BY <1>1, <1>8 DEF QueueInv, Apart
  <2> QED
    BY <1>1, <1>7, <1>8, <2>1 DEF QueueInv, Apart
<1>11. Together'
  BY <1>1, <1>7, <1>8 DEF QueueInv, Together
<1>12. Hands'
  BY <1>1 DEF QueueInv, Hands
<1> QED
  BY <1>9, <1>10, <1>11, <1>12 DEF QueueInv

\* A goroutine takes the first command.
LEMMA TakeStep ==
    ASSUME QueueInv, NEW w \in Workers, ProcessNextCommand(w)
    PROVE  QueueInv'
<1>1. /\ pc[w] = "idle" /\ queue # <<>> /\ queue' = Tail(queue)
      /\ pc' = [pc EXCEPT ![w] = "sending"] /\ holds' = [holds EXCEPT ![w] = Head(queue)]
      /\ UNCHANGED <<retries, enqueued, sent, gone>> /\ UNCHANGED lifecycle
  BY DEF ProcessNextCommand
<1>2. /\ queue \in Seq(Cmds) /\ Distinct(queue)
      /\ pc \in [Workers -> {"off", "idle", "sending", "done"}]
      /\ holds \in [Workers -> Cmds \cup {Absent}]
  BY DEF QueueInv, QueueTypeOK, Apart
<1>3. PICK c : c = Head(queue)
  OBVIOUS
<1>4. /\ queue' \in Seq(Cmds) /\ Distinct(queue')
      /\ c \notin ToSet(queue') /\ c \in ToSet(queue) /\ c \in Cmds
      /\ ToSet(queue) = ToSet(queue') \cup {c}
  <2>1. PICK t : t = Tail(queue)
    OBVIOUS
  <2>2. /\ t \in Seq(Cmds) /\ Distinct(t)
        /\ c \notin ToSet(t) /\ c \in ToSet(queue)
        /\ ToSet(queue) = ToSet(t) \cup {c}
    BY <1>1, <1>2, <1>3, <2>1, FirstTaken
  <2>3. c \in Cmds
    BY <1>2, <2>2, Elements
  <2> QED
    BY <1>1, <2>1, <2>2, <2>3, Zenon
<1>5. c # Absent /\ holds[w] = Absent
  BY <1>1, <1>4, QueueAssumption DEF QueueInv, Hands
<1>6. /\ w \notin Holding /\ Holding' = Holding \cup {w}
      /\ holds'[w] = c /\ \A v \in Holding : holds'[v] = holds[v]
  BY <1>1, <1>2, <1>3, <1>5 DEF Holding
<1>7. InHand' = InHand \cup {c}
  BY <1>6 DEF InHand
<1>8. QueueTypeOK'
  BY <1>1, <1>2, <1>3, <1>4, Others DEF QueueInv, QueueTypeOK
<1>9. Apart'
  <2>1. c \notin InHand /\ c \notin ToSet(sent) /\ c \notin gone
    BY <1>4 DEF QueueInv, Apart
  <2>2. \A u, v \in Holding' : holds'[u] = holds'[v] => u = v
    BY <1>6, <2>1 DEF QueueInv, Apart, InHand
  <2>3. Distinct(sent') /\ Distinct(enqueued')
    BY <1>1 DEF QueueInv, Apart
  <2> QED
    BY <1>1, <1>4, <1>7, <2>1, <2>2, <2>3 DEF QueueInv, Apart
<1>10. Together'
  BY <1>1, <1>4, <1>7 DEF QueueInv, Together
<1>11. Hands'
  BY <1>1, <1>2, <1>3, <1>4, <1>5, QueueAssumption DEF QueueInv, Hands
<1> QED
  BY <1>8, <1>9, <1>10, <1>11 DEF QueueInv

\* What a goroutine that returns from the callback lets go of.
LEMMA Returned ==
    ASSUME QueueInv, NEW w \in Workers, Return(w)
    PROVE  /\ pc[w] = "sending" /\ holds[w] \in Cmds
           /\ w \in Holding /\ holds[w] \in InHand
           /\ holds[w] \notin ToSet(queue) /\ holds[w] \notin ToSet(sent)
           /\ holds[w] \notin gone
           /\ Holding' = Holding \ {w}
           /\ \A v \in Holding' : holds'[v] = holds[v]
           /\ \A u, v \in Holding' : holds'[u] = holds'[v] => u = v
           /\ InHand' = InHand \ {holds[w]}
           /\ pc' \in [Workers -> {"off", "idle", "sending", "done"}]
           /\ holds' \in [Workers -> Cmds \cup {Absent}]
           /\ \A v \in Workers : holds'[v] # Absent <=> pc'[v] = "sending"
           /\ enqueued' = enqueued /\ UNCHANGED lifecycle
<1>1. /\ pc[w] = "sending" /\ pc' = [pc EXCEPT ![w] = "idle"]
      /\ holds' = [holds EXCEPT ![w] = Absent] /\ enqueued' = enqueued
      /\ UNCHANGED lifecycle
  BY DEF Return
<1>2. /\ pc \in [Workers -> {"off", "idle", "sending", "done"}]
      /\ holds \in [Workers -> Cmds \cup {Absent}]
      /\ \A v \in Workers : holds[v] # Absent <=> pc[v] = "sending"
  BY DEF QueueInv, QueueTypeOK, Hands
<1>3. holds[w] # Absent /\ holds[w] \in Cmds
  BY <1>1, <1>2
<1>4. w \in Holding /\ holds[w] \in InHand
  BY <1>3 DEF Holding, InHand
<1>5. /\ Holding' = Holding \ {w}
      /\ \A v \in Holding' : holds'[v] = holds[v]
  BY <1>1, <1>2 DEF Holding
<1>6. \A u, v \in Holding : holds[u] = holds[v] => u = v
  BY DEF QueueInv, Apart
<1>7. InHand' = InHand \ {holds[w]}
  BY <1>4, <1>5, <1>6 DEF InHand
<1>8. /\ holds[w] \notin ToSet(queue) /\ holds[w] \notin ToSet(sent)
      /\ holds[w] \notin gone
  BY <1>4 DEF QueueInv, Apart
<1>9. /\ pc' \in [Workers -> {"off", "idle", "sending", "done"}]
      /\ holds' \in [Workers -> Cmds \cup {Absent}]
      /\ \A v \in Workers : holds'[v] # Absent <=> pc'[v] = "sending"
  BY <1>1, <1>2
<1> QED
  BY <1>1, <1>3, <1>4, <1>5, <1>6, <1>7, <1>8, <1>9

\* The command in hand is sent,
LEMMA SendOkStep ==
    ASSUME QueueInv, NEW w \in Workers, SendOk(w)
    PROVE  QueueInv'
<1>1. /\ Return(w) /\ sent' = Append(sent, holds[w])
      /\ UNCHANGED <<queue, retries, gone>>
  BY DEF SendOk
<1>2. PICK c : c = holds[w]
  OBVIOUS
<1>3. /\ c \in Cmds /\ c \in InHand /\ c \notin ToSet(queue)
      /\ c \notin ToSet(sent) /\ c \notin gone
      /\ \A u, v \in Holding' : holds'[u] = holds'[v] => u = v
      /\ InHand' = InHand \ {c}
      /\ pc' \in [Workers -> {"off", "idle", "sending", "done"}]
      /\ holds' \in [Workers -> Cmds \cup {Absent}]
      /\ \A v \in Workers : holds'[v] # Absent <=> pc'[v] = "sending"
      /\ enqueued' = enqueued /\ UNCHANGED lifecycle
  BY <1>1, <1>2, Returned
<1>4. /\ sent' \in Seq(Cmds) /\ Distinct(sent')
      /\ ToSet(sent') = ToSet(sent) \cup {c}
  <2>1. sent \in Seq(Cmds) /\ Distinct(sent)
    BY DEF QueueInv, QueueTypeOK, Apart
  <2> QED
    BY <1>1, <1>2, <1>3, <2>1, AddedLast
<1>5. QueueTypeOK'
  BY <1>1, <1>3, <1>4, Others DEF QueueInv, QueueTypeOK
<1>6. Apart'
  <2>1. Distinct(queue') /\ Distinct(enqueued')
    BY <1>1, <1>3 DEF QueueInv, Apart
  <2> QED
    BY <1>1, <1>3, <1>4, <2>1 DEF QueueInv, Apart
<1>7. Together'
  BY <1>1, <1>3, <1>4 DEF QueueInv, Together
<1>8. Hands'
  BY <1>1, <1>3 DEF QueueInv, Hands
<1> QED
  BY <1>5, <1>6, <1>7, <1>8 DEF QueueInv

\* or goes back to the queue, or is given up.
LEMMA SendFailsStep ==
    ASSUME QueueInv, NEW w \in Workers, SendFails(w)
    PROVE  QueueInv'
<1>1. PICK c : c = holds[w]
  OBVIOUS
<1>2. /\ Return(w) /\ sent' = sent
      /\ retries' = [retries EXCEPT ![c] = @ + 1]
      /\ IF retries'[c] < MaxAttempts
         THEN queue' = <<c>> \o queue /\ gone' = gone
         ELSE gone' = gone \cup {c} /\ queue' = queue
  BY <1>1 DEF SendFails
<1>3. /\ c \in Cmds /\ c \in InHand /\ c \notin ToSet(queue)
      /\ c \notin ToSet(sent) /\ c \notin gone
      /\ \A u, v \in Holding' : holds'[u] = holds'[v] => u = v
      /\ InHand' = InHand \ {c}
      /\ pc' \in [Workers -> {"off", "idle", "sending", "done"}]
      /\ holds' \in [Workers -> Cmds \cup {Absent}]
      /\ \A v \in Workers : holds'[v] # Absent <=> pc'[v] = "sending"
      /\ enqueued' = enqueued /\ UNCHANGED lifecycle
  BY <1>1, <1>2, Returned
<1>4. /\ retries \in [Cmds -> 0 .. MaxAttempts]
      /\ queue \in Seq(Cmds) /\ Distinct(queue) /\ gone \subseteq Cmds
      /\ \A d \in Cmds : retries[d] = MaxAttempts => d \in gone
  BY DEF QueueInv, QueueTypeOK, Apart, Hands
<1>5. /\ retries' \in [Cmds -> 0 .. MaxAttempts]
      /\ retries'[c] < MaxAttempts \/ retries'[c] = MaxAttempts
      /\ \A d \in Cmds \ {c} : retries'[d] = retries[d]
  <2>1. retries[c] \in 0 .. MaxAttempts /\ retries[c] # MaxAttempts
    BY <1>3, <1>4
  <2> QED
    BY <1>2, <1>3, <1>4, <2>1 DEF MaxAttempts
<1>6. CASE retries'[c] < MaxAttempts
  <2>1. /\ queue' \in Seq(Cmds) /\ Distinct(queue') /\ gone' = gone
        /\ ToSet(queue') = ToSet(queue) \cup {c}
    <3>1. queue' = <<c>> \o queue /\ gone' = gone
      BY <1>2, <1>6, Zenon
    <3> QED
      BY <1>3, <1>4, <3>1, AddedFirst
  <2>2. QueueTypeOK'
    BY <1>2, <1>3, <1>5, <2>1, Others DEF QueueInv, QueueTypeOK
  <2>3. Apart'
    <3>1. Distinct(sent') /\ Distinct(enqueued')
      BY <1>2, <1>3 DEF QueueInv, Apart
    <3> QED
      BY <1>2, <1>3, <2>1, <3>1 DEF QueueInv, Apart
  <2>4. Together'
    BY <1>2, <1>3, <2>1 DEF QueueInv, Together
  <2>5. retries'[c] # MaxAttempts
    BY <1>3, <1>5, <1>6 DEF MaxAttempts
  <2>6. Hands'
    BY <1>3, <1>4, <1>5, <2>1, <2>5 DEF Hands
  <2> QED
    BY <2>2, <2>3, <2>4, <2>6 DEF QueueInv
<1>7. CASE ~(retries'[c] < MaxAttempts)
  <2>1. gone' = gone \cup {c} /\ queue' = queue
    BY <1>2, <1>7
  <2>2. QueueTypeOK'
    BY <1>2, <1>3, <1>4, <1>5, <2>1, Others DEF QueueInv, QueueTypeOK
  <2>3. Apart'
    <3>1. Distinct(sent') /\ Distinct(enqueued') /\ Distinct(queue')
      BY <1>2, <1>3, <2>1 DEF QueueInv, Apart
    <3> QED
      BY <1>2, <1>3, <2>1, <3>1 DEF QueueInv, Apart
  <2>4. Together'
    BY <1>2, <1>3, <2>1 DEF QueueInv, Together
  <2>5. Hands'
    BY <1>3, <1>4, <1>5, <2>1 DEF Hands
  <2> QED
    BY <2>2, <2>3, <2>4, <2>5 DEF QueueInv
<1> QED
  BY <1>6, <1>7

\* Every step keeps each command in one place.
LEMMA QueueStep ==
    ASSUME QueueInv, [QueueNext]_(queueVars)
    PROVE  QueueInv'
<1>1. CASE Start \/ Spawn \/ Stop \/ CloseStop
  BY <1>1, WorkerStep
<1>2. ASSUME NEW c \in Cmds, Enqueue(c) \/ EnqueuePriority(c)
      PROVE  QueueInv'
  BY <1>2, EnqueueStep
<1>3. CASE ClearQueue
  BY <1>3, DiscardStep DEF ClearQueue
<1>4. CASE RemoveExpiredCommands
  BY <1>4, DiscardStep DEF RemoveExpiredCommands
<1>5. ASSUME NEW w \in Workers, ProcessQueue(w)
      PROVE  QueueInv'
  BY <1>5, WorkerStep, TakeStep, SendOkStep, SendFailsStep DEF ProcessQueue
<1>6. CASE UNCHANGED queueVars
  <2>1. /\ UNCHANGED <<queue, retries, holds, enqueued, sent, gone>> /\ pc' = pc
        /\ UNCHANGED lifecycle
    BY <1>6 DEF queueVars, workers
  <2>2. QueueTypeOK'
    BY <2>1, Others DEF QueueInv, QueueTypeOK
  <2> QED
    BY <2>1, <2>2, NothingMoved DEF QueueInv
<1> QED
  BY <1>1, <1>2, <1>3, <1>4, <1>5, <1>6 DEF QueueNext

\* InOnePlace: whatever callers and goroutines do, however often the queue is
\* started, and whichever sends fail, no command is lost or sent twice
\* (rate_limiter.go:176-252).
THEOREM NoneLostOrDoubled == QueueSpec => []InOnePlace
<1>1. QueueInv => InOnePlace
  BY CountedOnce
<1> QED
  BY <1>1, QueueInitInv, QueueStep, PTL DEF QueueSpec

-----------------------------------------------------------------------------
(***************************************************************************)
(* With one goroutine, regular commands keep their order.                  *)
(***************************************************************************)
\* One before the other in a sequence.
Before(e, a, b) == \E i, j \in 1 .. Len(e) : i < j /\ e[i] = a /\ e[j] = b

\* Among the regular commands, those sent are in order, those in hand come after
\* them and those that wait in order after both.
SentInOrder ==
    \A i, j \in 1 .. Len(sent) :
      i < j /\ sent[i] \in Regular /\ sent[j] \in Regular => Before(enqueued, sent[i], sent[j])

WaitingInOrder ==
    \A i, j \in 1 .. Len(queue) :
      i < j /\ queue[i] \in Regular /\ queue[j] \in Regular
        => Before(enqueued, queue[i], queue[j])

HandAfterSent ==
    \A a \in ToSet(sent) \cap Regular : \A b \in InHand \cap Regular : Before(enqueued, a, b)

WaitingAfter ==
    \A a \in (ToSet(sent) \cup InHand) \cap Regular :
      \A b \in ToSet(queue) \cap Regular : Before(enqueued, a, b)

Ordered == SentInOrder /\ WaitingInOrder /\ HandAfterSent /\ WaitingAfter

\* The order of the enqueued is not changed by another, which comes last.
LEMMA StaysBefore ==
    ASSUME NEW S, NEW e \in Seq(S), NEW c \in S
    PROVE  /\ \A a, b : Before(e, a, b) => Before(Append(e, c), a, b)
           /\ \A a \in ToSet(e) : Before(Append(e, c), a, c)
<1> DEFINE t == Append(e, c)
<1>1. /\ Len(e) \in Nat /\ Len(t) = Len(e) + 1 /\ t[Len(e) + 1] = c
      /\ \A k \in 1 .. Len(e) : t[k] = e[k]
  BY AddedLast, LenProperties
<1>2. /\ ToSet(e) = {e[i] : i \in 1 .. Len(e)}
  BY Elements
<1> HIDE DEF t
<1>3. \A k \in 1 .. Len(e) : k \in 1 .. Len(t) /\ k < Len(e) + 1
  BY <1>1
<1>4. \A a, b : Before(e, a, b) => Before(t, a, b)
  BY <1>1, <1>3 DEF Before
<1>5. ASSUME NEW a \in ToSet(e)
      PROVE  Before(t, a, c)
  <2>1. PICK i \in 1 .. Len(e) : e[i] = a
    BY <1>2
  <2>2. Len(e) + 1 \in 1 .. Len(t)
    BY <1>1
  <2> QED
    BY <1>1, <1>3, <2>1, <2>2 DEF Before
<1> QED
  BY <1>4, <1>5 DEF t

\* A regular command comes after all, an urgent one changes no order.
LEMMA OrderedEnqueue ==
    ASSUME QueueInv, Ordered, NEW c \in Cmds,
           Enqueue(c) \/ EnqueuePriority(c)
    PROVE  Ordered'
<1>1. /\ UNCHANGED <<holds, sent>> /\ enqueued' = Append(enqueued, c)
      /\ \/ c \in Regular /\ queue' = Append(queue, c)
         \/ c \in Urgent /\ queue' = <<c>> \o queue
  BY DEF Enqueue, EnqueuePriority, workers
<1>2. queue \in Seq(Cmds) /\ enqueued \in Seq(Cmds) /\ Len(queue) \in Nat
  BY LenProperties DEF QueueInv, QueueTypeOK
<1>3. InHand' = InHand
  BY <1>1 DEF InHand, Holding
<1>4. PICK e : e = Append(enqueued, c)
  OBVIOUS
<1>5. /\ enqueued' = e
      /\ \A a, b : Before(enqueued, a, b) => Before(e, a, b)
      /\ \A a \in ToSet(enqueued) : Before(e, a, c)
  BY <1>1, <1>2, <1>4, StaysBefore
<1>6. /\ ToSet(sent) \cup InHand \cup ToSet(queue) \subseteq ToSet(enqueued)
  BY DEF QueueInv, Together
<1>7. SentInOrder' /\ HandAfterSent'
  BY <1>1, <1>3, <1>5 DEF Ordered, SentInOrder, HandAfterSent
<1>8. WaitingInOrder' /\ WaitingAfter'
  <2>1. CASE c \in Regular /\ queue' = Append(queue, c)
    <3>1. /\ Len(queue') = Len(queue) + 1 /\ queue'[Len(queue) + 1] = c
          /\ \A i \in 1 .. Len(queue) : queue'[i] = queue[i]
          /\ ToSet(queue') = ToSet(queue) \cup {c}
      BY <1>2, <2>1, AddedLast
    <3>2. WaitingAfter'
      BY <1>1, <1>3, <1>5, <1>6, <3>1 DEF Ordered, WaitingAfter
    <3>3. ASSUME NEW i \in 1 .. Len(queue'), NEW j \in 1 .. Len(queue'), i < j,
                 queue'[i] \in Regular, queue'[j] \in Regular
          PROVE  Before(e, queue'[i], queue'[j])
      <4>1. i \in 1 .. Len(queue) /\ queue'[i] = queue[i]
        BY <1>2, <3>1, <3>3
      <4>2. CASE j \in 1 .. Len(queue)
        BY <1>5, <3>1, <3>3, <4>1, <4>2 DEF Ordered, WaitingInOrder
      <4>3. CASE j = Len(queue) + 1
        <5>1. queue[i] \in ToSet(enqueued)
          BY <1>2, <1>6, <4>1, Elements
        <5> QED
          BY <1>5, <3>1, <4>1, <4>3, <5>1
      <4> QED
        BY <1>2, <3>1, <4>2, <4>3
    <3> QED
      BY <1>5, <3>2, <3>3 DEF WaitingInOrder
  <2>2. CASE c \in Urgent /\ queue' = <<c>> \o queue
    <3>1. /\ Len(queue') = Len(queue) + 1 /\ queue'[1] = c
          /\ \A i \in 1 .. Len(queue) : queue'[i + 1] = queue[i]
          /\ ToSet(queue') = ToSet(queue) \cup {c}
      BY <1>2, <2>2, AddedFirst
    <3>2. c \notin Regular
      BY <2>2, QueueAssumption
    <3>3. WaitingAfter'
      BY <1>1, <1>3, <1>5, <3>1, <3>2 DEF Ordered, WaitingAfter
    <3>4. ASSUME NEW i \in 1 .. Len(queue'), NEW j \in 1 .. Len(queue'), i < j,
                 queue'[i] \in Regular, queue'[j] \in Regular
          PROVE  Before(e, queue'[i], queue'[j])
      <4>1. i # 1
        BY <3>1, <3>2, <3>4
      <4>2. i - 1 \in 1 .. Len(queue) /\ j - 1 \in 1 .. Len(queue) /\ i - 1 < j - 1
        BY <1>2, <3>1, <3>4, <4>1
      <4>3. (i - 1) + 1 = i /\ (j - 1) + 1 = j
        BY <1>2, <3>1
      <4>4. queue'[i] = queue[i - 1] /\ queue'[j] = queue[j - 1]
        <5>1. PICK k, l : k = i - 1 /\ l = j - 1
          OBVIOUS
        <5>2. queue'[k + 1] = queue[k] /\ queue'[l + 1] = queue[l]
          BY <3>1, <4>2, <5>1
        <5> QED
          BY <4>3, <5>1, <5>2
      <4> QED
        BY <1>5, <3>4, <4>2, <4>4 DEF Ordered, WaitingInOrder
    <3> QED
      BY <1>5, <3>3, <3>4 DEF WaitingInOrder
  <2> QED
    BY <1>1, <2>1, <2>2
<1> QED
  BY <1>7, <1>8 DEF Ordered

\* What is kept of the queue is kept in order.
LEMMA OrderedDiscard ==
    ASSUME QueueInv, Ordered, NEW S, Discard(S)
    PROVE  Ordered'
<1>1. UNCHANGED <<holds, enqueued, sent>>
  BY DEF Discard, workers
<1>2. InHand' = InHand
  BY <1>1 DEF InHand, Holding
<1>3. PICK n, place :
        /\ n \in Nat /\ Len(queue') = n /\ Rising(place, n)
        /\ \A i \in 1 .. n : place[i] \in 1 .. Len(queue) /\ queue'[i] = queue[place[i]]
  BY WaitingKept
<1>4. SentInOrder' /\ HandAfterSent'
  BY <1>1, <1>2 DEF Ordered, SentInOrder, HandAfterSent
<1>5. WaitingAfter'
  BY <1>1, <1>2, WaitingKept DEF Ordered, WaitingAfter
<1>6. WaitingInOrder'
  <2> SUFFICES ASSUME NEW i \in 1 .. Len(queue'), NEW j \in 1 .. Len(queue'), i < j,
                      queue'[i] \in Regular, queue'[j] \in Regular
               PROVE  Before(enqueued', queue'[i], queue'[j])
    BY DEF WaitingInOrder
  <2>1. place[i] < place[j] /\ place[i] \in 1 .. Len(queue) /\ place[j] \in 1 .. Len(queue)
    BY <1>3 DEF Rising
  <2> QED
    BY <1>1, <1>3, <2>1 DEF Ordered, WaitingInOrder
<1> QED
  BY <1>4, <1>5, <1>6 DEF Ordered

\* The first of the queue is taken while the only goroutine has nothing in hand.
LEMMA OrderedTake ==
    ASSUME QueueInv, Ordered, MaxStarts = 1,
           NEW w \in Workers, ProcessNextCommand(w)
    PROVE  Ordered'
<1>1. /\ pc[w] = "idle" /\ queue # <<>> /\ queue' = Tail(queue)
      /\ holds' = [holds EXCEPT ![w] = Head(queue)] /\ UNCHANGED <<enqueued, sent>>
  BY DEF ProcessNextCommand
<1>2. PICK c : c = queue[1]
  OBVIOUS
<1>3. /\ queue \in Seq(Cmds) /\ holds \in [Workers -> Cmds \cup {Absent}]
      /\ Len(queue) \in Nat
  BY LenProperties DEF QueueInv, QueueTypeOK
<1>4. PICK t : t = Tail(queue)
  OBVIOUS
<1>5. /\ queue' = t /\ Len(t) = Len(queue) - 1
      /\ t \in Seq(Cmds)
      /\ Head(queue) = c /\ c \in ToSet(queue)
      /\ \A i \in 1 .. Len(queue) - 1 : t[i] = queue[i + 1]
      /\ ToSet(queue) = ToSet(t) \cup {c}
  BY <1>1, <1>2, <1>3, <1>4, FirstTaken
<1>6. Workers = {w}
  BY DEF Workers
<1>7. InHand' \subseteq {c}
  BY <1>1, <1>3, <1>5, <1>6 DEF InHand, Holding
<1>8. SentInOrder' /\ HandAfterSent'
  BY <1>1, <1>5, <1>7 DEF Ordered, SentInOrder, HandAfterSent, WaitingAfter
<1>9. ASSUME NEW b \in ToSet(t) \cap Regular, c \in Regular
      PROVE  Before(enqueued, c, b)
  <2>1. PICK i \in 1 .. Len(t) : b = t[i]
    BY <1>5, Elements
  <2>2. /\ i + 1 \in 1 .. Len(queue) /\ 1 \in 1 .. Len(queue) /\ 1 < i + 1
        /\ queue[i + 1] = b
    BY <1>3, <1>5, <2>1
  <2> QED
    BY <1>2, <1>9, <2>2 DEF Ordered, WaitingInOrder
<1>10. WaitingAfter'
  BY <1>1, <1>5, <1>7, <1>9 DEF Ordered, WaitingAfter
<1>11. WaitingInOrder'
  <2> SUFFICES ASSUME NEW i \in 1 .. Len(t), NEW j \in 1 .. Len(t), i < j,
                      t[i] \in Regular, t[j] \in Regular
               PROVE  Before(enqueued, t[i], t[j])
    BY <1>1, <1>5 DEF WaitingInOrder
  <2>1. /\ i + 1 \in 1 .. Len(queue) /\ j + 1 \in 1 .. Len(queue) /\ i + 1 < j + 1
        /\ t[i] = queue[i + 1] /\ t[j] = queue[j + 1]
    BY <1>3, <1>5
  <2> QED
    BY <2>1 DEF Ordered, WaitingInOrder
<1> QED
  BY <1>8, <1>10, <1>11 DEF Ordered

\* The only goroutine returns with nothing in hand.
LEMMA EmptyHanded ==
    ASSUME QueueInv, MaxStarts = 1, NEW w \in Workers, Return(w)
    PROVE  InHand = {holds[w]} /\ InHand' = {}
<1>1. /\ holds[w] \in InHand /\ InHand' = InHand \ {holds[w]}
  BY Returned
<1>2. InHand \subseteq {holds[w]}
  BY DEF Workers, InHand, Holding
<1> QED
  BY <1>1, <1>2

\* What was in hand is sent after the others,
LEMMA OrderedSendOk ==
    ASSUME QueueInv, Ordered, MaxStarts = 1,
           NEW w \in Workers, SendOk(w)
    PROVE  Ordered'
<1>1. /\ Return(w) /\ sent' = Append(sent, holds[w]) /\ queue' = queue
  BY DEF SendOk
<1>2. PICK c : c = holds[w]
  OBVIOUS
<1>3. /\ c \in Cmds /\ enqueued' = enqueued
  BY <1>1, <1>2, Returned
<1>4. sent \in Seq(Cmds) /\ Len(sent) \in Nat
  BY LenProperties DEF QueueInv, QueueTypeOK
<1>5. /\ Len(sent') = Len(sent) + 1 /\ sent'[Len(sent) + 1] = c
      /\ \A i \in 1 .. Len(sent) : sent'[i] = sent[i]
      /\ ToSet(sent') = ToSet(sent) \cup {c}
  BY <1>1, <1>2, <1>3, <1>4, AddedLast
<1>6. InHand = {c} /\ InHand' = {}
  BY <1>1, <1>2, EmptyHanded
<1>7. SentInOrder'
  <2> SUFFICES ASSUME NEW i \in 1 .. Len(sent'), NEW j \in 1 .. Len(sent'), i < j,
                      sent'[i] \in Regular, sent'[j] \in Regular
               PROVE  Before(enqueued, sent'[i], sent'[j])
    BY <1>3 DEF SentInOrder
  <2>1. i \in 1 .. Len(sent) /\ sent'[i] = sent[i]
    BY <1>4, <1>5
  <2>2. CASE j \in 1 .. Len(sent)
    BY <1>5, <2>1, <2>2 DEF Ordered, SentInOrder
  <2>3. CASE j = Len(sent) + 1
    <3>1. sent[i] \in ToSet(sent)
      BY <1>4, <2>1, Elements
    <3> QED
      BY <1>5, <1>6, <2>1, <2>3, <3>1 DEF Ordered, HandAfterSent
  <2> QED
    BY <1>4, <1>5, <2>2, <2>3
<1>8. WaitingInOrder' /\ HandAfterSent'
  BY <1>1, <1>3, <1>6 DEF Ordered, WaitingInOrder, HandAfterSent
<1>9. WaitingAfter'
  BY <1>1, <1>3, <1>5, <1>6 DEF Ordered, WaitingAfter
<1> QED
  BY <1>7, <1>8, <1>9 DEF Ordered

\* or goes back before those that wait, or is given up.
LEMMA OrderedSendFails ==
    ASSUME QueueInv, Ordered, MaxStarts = 1,
           NEW w \in Workers, SendFails(w)
    PROVE  Ordered'
<1>1. PICK c : c = holds[w]
  OBVIOUS
<1>2. /\ Return(w) /\ sent' = sent
      /\ queue' = queue \/ queue' = <<c>> \o queue
  BY <1>1 DEF SendFails
<1>3. c \in Cmds /\ enqueued' = enqueued
  BY <1>1, <1>2, Returned
<1>4. InHand = {c} /\ InHand' = {}
  BY <1>1, <1>2, EmptyHanded
<1>5. queue \in Seq(Cmds) /\ Len(queue) \in Nat
  BY LenProperties DEF QueueInv, QueueTypeOK
<1>6. SentInOrder' /\ HandAfterSent'
  BY <1>2, <1>3, <1>4 DEF Ordered, SentInOrder, HandAfterSent
<1>7. CASE queue' = queue
  BY <1>2, <1>3, <1>4, <1>6, <1>7 DEF Ordered, WaitingInOrder, WaitingAfter
<1>8. CASE queue' = <<c>> \o queue
  <2>1. /\ Len(queue') = Len(queue) + 1 /\ queue'[1] = c
        /\ \A i \in 1 .. Len(queue) : queue'[i + 1] = queue[i]
        /\ ToSet(queue') = ToSet(queue) \cup {c}
    BY <1>3, <1>5, <1>8, AddedFirst
  <2>2. WaitingAfter'
    BY <1>2, <1>3, <1>4, <2>1 DEF Ordered, WaitingAfter, HandAfterSent
  <2>3. ASSUME NEW i \in 1 .. Len(queue'), NEW j \in 1 .. Len(queue'), i < j,
               queue'[i] \in Regular, queue'[j] \in Regular
        PROVE  Before(enqueued, queue'[i], queue'[j])
    <3>1. PICK l \in 1 .. Len(queue) : j = l + 1 /\ queue'[j] = queue[l]
      <4>1. j - 1 \in 1 .. Len(queue) /\ j = (j - 1) + 1
        BY <1>5, <2>1, <2>3
      <4> QED
        BY <2>1, <4>1
    <3>2. CASE i = 1
      <4>1. queue[l] \in ToSet(queue)
        BY <1>5, Elements
      <4> QED
        BY <1>4, <2>1, <2>3, <3>1, <3>2, <4>1 DEF Ordered, WaitingAfter
    <3>3. CASE i # 1
      <4>1. PICK k \in 1 .. Len(queue) : i = k + 1 /\ queue'[i] = queue[k]
        <5>1. i - 1 \in 1 .. Len(queue) /\ i = (i - 1) + 1
          BY <1>5, <2>1, <2>3, <3>3
        <5> QED
          BY <2>1, <5>1
      <4>2. k < l
        BY <1>5, <2>3, <3>1, <4>1
      <4> QED
        BY <2>3, <3>1, <4>1, <4>2 DEF Ordered, WaitingInOrder
    <3> QED
      BY <3>2, <3>3
  <2> QED
    BY <1>3, <1>6, <2>2, <2>3 DEF Ordered, WaitingInOrder
<1> QED
  BY <1>2, <1>7, <1>8

\* The other steps move no command.
LEMMA OrderedUnmoved ==
    ASSUME Ordered, UNCHANGED <<queue, holds, enqueued, sent>>
    PROVE  Ordered'
<1>1. InHand' = InHand
  BY DEF InHand, Holding
<1> QED
  BY <1>1 DEF Ordered, SentInOrder, WaitingInOrder, HandAfterSent, WaitingAfter

\* Every step of the only goroutine keeps the order.
LEMMA OrderedStep ==
    ASSUME MaxStarts = 1, QueueInv, Ordered, [QueueNext]_(queueVars)
    PROVE  Ordered'
<1>1. CASE Start \/ Spawn \/ Stop \/ CloseStop
  BY <1>1, OrderedUnmoved
     DEF Start, Spawn, Stop, CloseStop, workers
<1>2. ASSUME NEW c \in Cmds, Enqueue(c) \/ EnqueuePriority(c)
      PROVE  Ordered'
  BY <1>2, OrderedEnqueue
<1>3. CASE ClearQueue
  BY <1>3, OrderedDiscard DEF ClearQueue
<1>4. CASE RemoveExpiredCommands
  BY <1>4, OrderedDiscard DEF RemoveExpiredCommands
<1>5. ASSUME NEW w \in Workers, WorkerExits(w)
      PROVE  Ordered'
  BY <1>5, OrderedUnmoved DEF WorkerExits
<1>6. ASSUME NEW w \in Workers, ProcessQueue(w)
      PROVE  Ordered'
  BY <1>5, <1>6, OrderedTake, OrderedSendOk, OrderedSendFails DEF ProcessQueue
<1>7. CASE UNCHANGED queueVars
  BY <1>7, OrderedUnmoved DEF queueVars, workers
<1> QED
  BY <1>1, <1>2, <1>3, <1>4, <1>6, <1>7 DEF QueueNext

\* Nothing is out of order in a new queue.
LEMMA OrderedInit ==
    ASSUME QueueInit
    PROVE  Ordered
<1>1. queue = <<>> /\ sent = <<>> /\ enqueued = <<>>
  BY DEF QueueInit
<1>2. Len(queue) = 0 /\ Len(sent) = 0
  BY <1>1
<1>3. queue \in Seq(Cmds) /\ sent \in Seq(Cmds)
  BY <1>1
<1>4. /\ ToSet(queue) = {queue[i] : i \in 1 .. Len(queue)}
      /\ ToSet(sent) = {sent[i] : i \in 1 .. Len(sent)}
  BY <1>3, Elements
<1>5. ToSet(queue) = {} /\ ToSet(sent) = {}
  BY <1>2, <1>4
<1> QED
  BY <1>2, <1>5 DEF Ordered, SentInOrder, WaitingInOrder, HandAfterSent, WaitingAfter

\* A command is enqueued once: its rank is the only one.
LEMMA RankUnique ==
    ASSUME QueueInv, NEW a, NEW b, Before(enqueued, a, b)
    PROVE  (CHOOSE i \in DOMAIN enqueued : enqueued[i] = a)
             < (CHOOSE i \in DOMAIN enqueued : enqueued[i] = b)
<1>1. /\ DOMAIN enqueued = 1 .. Len(enqueued)
      /\ \A i, j \in 1 .. Len(enqueued) : enqueued[i] = enqueued[j] => i = j
  BY LenProperties DEF QueueInv, QueueTypeOK, Apart, Distinct
<1>2. PICK i, j \in 1 .. Len(enqueued) : i < j /\ enqueued[i] = a /\ enqueued[j] = b
  BY DEF Before
<1>3. (CHOOSE k \in DOMAIN enqueued : enqueued[k] = a) = i
  BY <1>1, <1>2
<1>4. (CHOOSE k \in DOMAIN enqueued : enqueued[k] = b) = j
  BY <1>1, <1>2
<1> QED
  BY <1>2, <1>3, <1>4

\* InOrder: when the queue is started once, regular commands are sent in the order
\* of their Enqueue, whatever sends fail and whatever is put before them.
THEOREM OrderKept ==
    ASSUME MaxStarts = 1
    PROVE  QueueSpec => []InOrder
<1>1. ASSUME QueueInv, Ordered
      PROVE  InOrder
  <2>1. DOMAIN sent = 1 .. Len(sent)
    BY <1>1, LenProperties DEF QueueInv, QueueTypeOK
  <2>2. ASSUME NEW i \in DOMAIN sent, NEW j \in DOMAIN sent, i < j,
               {sent[i], sent[j]} \subseteq Regular
        PROVE  (CHOOSE k \in DOMAIN enqueued : enqueued[k] = sent[i])
                 < (CHOOSE k \in DOMAIN enqueued : enqueued[k] = sent[j])
    <3>1. Before(enqueued, sent[i], sent[j])
      BY <1>1, <2>1, <2>2 DEF Ordered, SentInOrder
    <3> QED
      BY <1>1, <3>1, RankUnique
  <2> QED
    BY <2>2 DEF InOrder
<1>2. QueueInit => Ordered
  BY OrderedInit
<1>3. QueueInv /\ Ordered /\ [QueueNext]_(queueVars) => Ordered'
  BY OrderedStep
<1> QED
  BY <1>1, <1>2, <1>3, QueueInitInv, QueueStep, PTL DEF QueueSpec
=============================================================================
