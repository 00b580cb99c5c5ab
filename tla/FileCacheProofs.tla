---------------------------- MODULE FileCacheProofs ----------------------------
(***************************************************************************)
(* What holds of the cached files and of the account's name and picture in *)
(* the list, for any callers, pictures and number of profiles.             *)
(***************************************************************************)
EXTENDS FileCache, TLAPS

\* A fetch that waits for the server began when its URL was not cached.
FetchInv ==
  \A c \in Fetchers :
    /\ fetch[c].at \in {"asked", "answered"} => c \in early /\ fetch[c].url \in Pictures
    /\ fetch[c].at = "answered" => fetch[c].response \in Responses

\* What the feed is going to show is of one profile.
HeldTogether ==
  feed \in {"fetching", "showing"} =>
    held.profile \in 1 .. Newest /\ held.url = pics[held.profile]

\* What it is going to show is the newest profile, unless it missed one.
HeldIsNewest == feed \in {"fetching", "showing"} => held.profile = Newest \/ missed

\* While sync_account_state listens and has nothing to hear, the newest profile is
\* shown, unless one came between its reading and its listening: however the
\* profiles, a failing picture and the subscription interleave, no other is lost.
ShownUnlessTold ==
  feed = "listening" /\ heard = 0 => entry = Gone \/ entry.profile = Newest \/ missed

IInv == TypeOK /\ FetchInv /\ HeldTogether /\ ShownTogether /\ HeldIsNewest /\ ShownUnlessTold

LEMMA InitIInv == Init => IInv
<1> SUFFICES ASSUME Init PROVE IInv
  OBVIOUS
<1> USE ConstantsOK DEF Init
<1>1. Blank \in Views /\ NoFetch \in [at : {"idle", "asked", "answered", "done"},
                                      url : Pictures \cup {NoPicture}, response : Images]
  BY DEF Blank, View, Views, NoFetch, Images
<1>2. pics \in Seq(Pictures \cup {NoPicture}) /\ Newest = 1
  <2>1. PICK p \in Pictures \cup {NoPicture} : pics = <<p>>
    OBVIOUS
  <2> QED
    BY <2>1 DEF Newest
<1>3. TypeOK
  <2>1. Newest \in 1 .. MaxProfiles /\ 0 \in 0 .. MaxChanges
    BY <1>2
  <2>2. /\ fetch \in [Fetchers -> [at : {"idle", "asked", "answered", "done"},
                                  url : Pictures \cup {NoPicture}, response : Images]]
        /\ held \in Views /\ entry \in Views \cup {Gone}
    BY <1>1
  <2>3. command \in Seq(Trimmers) /\ Len(command) <= 1 /\ deadline = "ahead"
    BY DEF AtStart
  <2>4. /\ calls \in [Trimmers -> {"idle", "sending", "queued", "answered", "failed"}]
        /\ cache \in [Pictures -> {"none", "file", "refusal"}] /\ onServer \subseteq Pictures
    OBVIOUS
  <2>5. /\ feed = "reading" /\ heard \in 0 .. 2 /\ trim = "up"
        /\ early = {} /\ missed = FALSE /\ changes = 0
    OBVIOUS
  <2> QED
    BY <1>2, <2>1, <2>2, <2>3, <2>4, <2>5 DEF TypeOK
<1>4. FetchInv
  BY DEF FetchInv, NoFetch
<1>5. HeldTogether /\ ShownTogether
  BY DEF HeldTogether, ShownTogether
<1>6. HeldIsNewest /\ ShownUnlessTold
  BY DEF HeldIsNewest, ShownUnlessTold
<1> QED
  BY <1>3, <1>4, <1>5, <1>6 DEF IInv

-----------------------------------------------------------------------------
\* Fetches.

Fetch == [at : {"idle", "asked", "answered", "done"}, url : Pictures \cup {NoPicture},
          response : Images]

\* What the end of a fetch leaves.
LEMMA EndedTypes ==
  ASSUME NEW c \in Fetchers, NEW url \in Pictures, NEW response \in Images
  PROVE  /\ NoFetch \in Fetch /\ NoFetch.at = "idle"
         /\ Ended(c, url, response) \in Fetch
         /\ Ended(c, url, response).at \notin {"asked", "answered"}
BY DEF NoFetch, Fetch, Ended, Images

\* What the start of one leaves.
LEMMA AskTypes ==
  ASSUME TypeOK, FetchInv, NEW c \in Fetchers, NEW p \in Pictures, Ask(c, p)
  PROVE  /\ fetch' \in [Fetchers -> Fetch] /\ early' \subseteq Fetchers /\ FetchInv'
<1>1. ASSUME NEW r \in {"none", cache[p]}, fetch' = [fetch EXCEPT ![c] = Ended(c, p, r)],
             early' = early \ {c}
      PROVE  /\ fetch' \in [Fetchers -> Fetch] /\ early' \subseteq Fetchers /\ FetchInv'
  <2>1. r \in Images
    BY DEF TypeOK, Images, Responses
  <2> QED
    BY <1>1, <2>1, EndedTypes DEF TypeOK, FetchInv, Fetch
<1>2. CASE /\ fetch' = [fetch EXCEPT ![c] = [at |-> "asked", url |-> p, response |-> "none"]]
           /\ early' = early \cup {c}
  BY <1>2 DEF TypeOK, FetchInv, Fetch, Images
<1> QED
  BY <1>1, <1>2 DEF Ask

LEMMA FetchStep ==
  TypeOK /\ FetchInv /\ [Next]_vars =>
    fetch' \in [Fetchers -> Fetch] /\ early' \subseteq Fetchers /\ FetchInv'
    /\ cache' \in [Pictures -> {"none", "file", "refusal"}]
<1> SUFFICES ASSUME TypeOK, FetchInv, [Next]_vars
             PROVE  /\ fetch' \in [Fetchers -> Fetch] /\ early' \subseteq Fetchers /\ FetchInv'
                    /\ cache' \in [Pictures -> {"none", "file", "refusal"}]
  OBVIOUS
<1>0. fetch \in [Fetchers -> Fetch] /\ early \subseteq Fetchers
      /\ cache \in [Pictures -> {"none", "file", "refusal"}]
  BY DEF TypeOK, Fetch
<1>1. ASSUME NEW c \in Callers, NEW p \in Pictures, Call(c, p)
      PROVE  /\ fetch' \in [Fetchers -> Fetch] /\ early' \subseteq Fetchers /\ FetchInv' /\ UNCHANGED cache
  BY <1>1, AskTypes DEF Call, Fetchers
<1>2. CASE ReadProfile
  <2>1. pics[Newest] \in Pictures \cup {NoPicture}
    BY DEF TypeOK, Newest
  <2>2. CASE pics[Newest] = NoPicture
    BY <1>0, <1>2, <2>2 DEF ReadProfile, FetchInv
  <2>3. CASE pics[Newest] # NoPicture
    <3>1. Ask(Feed, pics[Newest]) /\ UNCHANGED cache /\ Feed \in Fetchers
      BY <1>2, <2>3 DEF ReadProfile, Fetchers
    <3> QED
      BY <1>0, <2>1, <2>3, <3>1, AskTypes
  <2> QED
    BY <2>2, <2>3
<1>3. ASSUME NEW c \in Fetchers, Serve(c)
      PROVE  /\ fetch' \in [Fetchers -> Fetch] /\ FetchInv' /\ UNCHANGED <<cache, early>>
  <2>1. PICK r \in Responses : fetch' = [fetch EXCEPT ![c].at = "answered", ![c].response = r]
    BY <1>3 DEF Serve, Responses
  <2>2. fetch[c] \in Fetch /\ c \in DOMAIN fetch
    BY <1>0
  <2>3. /\ DOMAIN fetch' = Fetchers /\ \A d \in Fetchers \ {c} : fetch'[d] = fetch[d]
        /\ fetch'[c] = [[fetch[c] EXCEPT !.at = "answered"] EXCEPT !.response = r]
    BY <1>0, <2>1, <2>2
  <2>4. fetch'[c] = [at |-> "answered", url |-> fetch[c].url, response |-> r]
    BY <2>2, <2>3 DEF Fetch
  <2>5. fetch' = [d \in Fetchers |-> IF d = c THEN fetch'[c] ELSE fetch[d]]
    BY <1>0, <2>1, <2>2
  <2>6. c \in early /\ fetch[c].url \in Pictures /\ UNCHANGED <<cache, early>>
    BY <1>3 DEF Serve, FetchInv
  <2>7. fetch'[c] \in Fetch
    BY <2>4, <2>6 DEF Fetch, Images
  <2>8. fetch' \in [Fetchers -> Fetch]
    BY <1>0, <2>5, <2>7
  <2>9. ASSUME NEW d \in Fetchers PROVE FetchInv!(d)'
    BY <2>3, <2>4, <2>6 DEF FetchInv
  <2> QED
    BY <2>6, <2>8, <2>9 DEF FetchInv
<1>4. ASSUME NEW c \in Fetchers, Save(c)
      PROVE  /\ fetch' \in [Fetchers -> Fetch] /\ early' \subseteq Fetchers /\ FetchInv'
             /\ cache' \in [Pictures -> {"none", "file", "refusal"}]
  <2>1. fetch[c].url \in Pictures /\ fetch[c].response \in Responses
    BY <1>4 DEF Save, FetchInv
  <2>2. \E r \in Images : fetch' = [fetch EXCEPT ![c] = Ended(c, fetch[c].url, r)]
    BY <1>4, <2>1 DEF Save, Images
  <2>3. cache' \in [Pictures -> {"none", "file", "refusal"}]
    BY <1>0, <1>4, <2>1 DEF Save, Responses
  <2>4. early' = early \ {c}
    BY <1>4 DEF Save
  <2> QED
    BY <1>0, <2>1, <2>2, <2>3, <2>4, EndedTypes DEF FetchInv
<1>5. ASSUME NEW c \in Fetchers, Lose(c)
      PROVE  /\ fetch' \in [Fetchers -> Fetch] /\ early' \subseteq Fetchers /\ FetchInv' /\ UNCHANGED cache
  <2>1. fetch[c].url \in Pictures /\ "none" \in Images
    BY <1>5 DEF Lose, FetchInv, Images
  <2> QED
    BY <1>0, <1>5, <2>1, EndedTypes DEF Lose, FetchInv
<1>6. CASE Picture
  <2>1. fetch' = [fetch EXCEPT ![Feed] = NoFetch] /\ UNCHANGED <<cache, early>> /\ Feed \in Fetchers
    BY <1>6 DEF Picture, Fetchers
  <2>2. NoFetch \in Fetch /\ NoFetch.at = "idle"
    BY DEF NoFetch, Fetch, Images
  <2> QED
    BY <1>0, <2>1, <2>2 DEF FetchInv
<1>7. CASE Restart
  <2>1. fetch' = [c \in Fetchers |-> NoFetch] /\ early' = {} /\ UNCHANGED cache
    BY <1>7 DEF Restart
  <2>2. NoFetch \in Fetch /\ NoFetch.at = "idle"
    BY DEF NoFetch, Fetch, Images
  <2> QED
    BY <1>0, <2>1, <2>2 DEF FetchInv
<1>8. CASE UNCHANGED <<fetch, early, cache>>
  BY <1>0, <1>8 DEF FetchInv
<1> QED
  BY <1>0, <1>1, <1>2, <1>3, <1>4, <1>5, <1>6, <1>7, <1>8
  DEF Next, vars, outside, feeding, trimming, Fetching, Feeding, Trimming, Upload, Expire, NewProfile,
      OtherChange, Show, Listen, Delete, CallTrim, SendTrim, HangUp, Elapse, TrimDue, TrimAsked, TrimFails
-----------------------------------------------------------------------------
\* What is shown.

LEMMA ShownStep ==
  TypeOK /\ HeldTogether /\ ShownTogether /\ [Next]_vars => HeldTogether' /\ ShownTogether'
<1> SUFFICES ASSUME TypeOK, HeldTogether, ShownTogether, [Next]_vars
             PROVE  HeldTogether' /\ ShownTogether'
  OBVIOUS
<1> USE DEF HeldTogether, ShownTogether
<1>0. Newest \in Nat \ {0} /\ pics \in Seq(Pictures \cup {NoPicture})
  BY DEF TypeOK
<1>1. ASSUME NEW p \in Pictures \cup {NoPicture}, NewProfile(p)
      PROVE  HeldTogether' /\ ShownTogether'
  <2>1. Newest' = Newest + 1 /\ \A i \in 1 .. Newest : pics'[i] = pics[i]
    BY <1>0, <1>1 DEF NewProfile, Newest
  <2>2. UNCHANGED <<feed, held, entry>>
    BY <1>1 DEF NewProfile
  <2> QED
    BY <1>0, <2>1, <2>2
<1>2. CASE ReadProfile
  <2>1. /\ held' = View(Newest, pics[Newest], "none") /\ UNCHANGED <<pics, entry>>
    BY <1>2 DEF ReadProfile, outside
  <2> QED
    BY <1>0, <2>1 DEF View, Newest
<1>3. CASE Picture
  <2>1. held'.profile = held.profile /\ held'.url = held.url
    BY <1>3 DEF Picture, TypeOK, Views
  <2> QED
    BY <1>3, <2>1 DEF Picture, outside, Newest
<1>4. CASE Show
  BY <1>4 DEF Show, outside, Newest
<1>5. CASE Listen
  BY <1>5 DEF Listen, outside, Newest
<1>6. CASE Delete
  BY <1>6 DEF Delete, outside, Newest
<1>7. CASE Restart
  BY <1>7 DEF Restart, outside, Newest
<1>8. CASE UNCHANGED <<pics, feed, held, entry>>
  BY <1>8 DEF Newest
<1> QED
  BY <1>1, <1>2, <1>3, <1>4, <1>5, <1>6, <1>7, <1>8
  DEF Next, vars, outside, feeding, trimming, Fetching, Feeding, Trimming, Upload, Expire, Call,
      OtherChange, Serve, Save, Lose, CallTrim, SendTrim, HangUp, Elapse, TrimDue, TrimAsked, TrimFails

LEMMA NewestStep ==
  TypeOK /\ HeldIsNewest /\ ShownUnlessTold /\ [Next]_vars => HeldIsNewest' /\ ShownUnlessTold'
<1> SUFFICES ASSUME TypeOK, HeldIsNewest, ShownUnlessTold, [Next]_vars
             PROVE  HeldIsNewest' /\ ShownUnlessTold'
  OBVIOUS
<1> USE DEF HeldIsNewest, ShownUnlessTold
<1>0. heard \in 0 .. 2 /\ missed \in BOOLEAN
  BY DEF TypeOK
<1>1. ASSUME NEW p \in Pictures \cup {NoPicture}, NewProfile(p)
      PROVE  HeldIsNewest' /\ ShownUnlessTold'
  <2>1. feed \in {"fetching", "showing"} => missed'
    BY <1>1 DEF NewProfile
  <2>2. feed = "listening" => heard' # 0
    BY <1>1 DEF NewProfile, Hear
  <2>3. UNCHANGED feed
    BY <1>1 DEF NewProfile
  <2> QED
    BY <2>1, <2>2, <2>3
<1>2. CASE OtherChange
  <2>1. feed = "listening" => heard' # 0
    BY <1>2 DEF OtherChange, Hear
  <2>2. UNCHANGED <<feed, held, pics, missed>>
    BY <1>2 DEF OtherChange, outside
  <2> QED
    BY <2>1, <2>2 DEF Newest
<1>3. CASE ReadProfile
  <2>1. held'.profile = Newest /\ UNCHANGED pics /\ feed' # "listening"
    BY <1>3 DEF ReadProfile, View, outside
  <2> QED
    BY <2>1 DEF Newest
<1>4. CASE Picture
  <2>1. held'.profile = held.profile
    BY <1>4 DEF Picture, TypeOK, Views
  <2>2. feed = "fetching" /\ feed' = "showing" /\ UNCHANGED <<pics, missed>>
    BY <1>4 DEF Picture, outside
  <2> QED
    BY <2>1, <2>2 DEF Newest
<1>5. CASE Show
  BY <1>5 DEF Show, outside, Newest
<1>6. CASE Listen
  BY <1>6 DEF Listen
<1>7. CASE Delete
  BY <1>7 DEF Delete, outside, Newest
<1>8. CASE Restart
  BY <1>8 DEF Restart
<1>9. CASE UNCHANGED <<pics, feed, held, heard, entry, missed>>
  BY <1>9 DEF Newest
<1> QED
  BY <1>1, <1>2, <1>3, <1>4, <1>5, <1>6, <1>7, <1>8, <1>9
  DEF Next, vars, outside, feeding, trimming, Fetching, Feeding, Trimming, Upload, Expire, Call,
      Serve, Save, Lose, CallTrim, SendTrim, HangUp, Elapse, TrimDue, TrimAsked, TrimFails

-----------------------------------------------------------------------------
\* The other types.

LEMMA FeedTypes ==
  TypeOK /\ FetchInv /\ [Next]_vars =>
    /\ feed' \in {"reading", "fetching", "showing", "listening", "ended"}
    /\ held' \in Views /\ heard' \in 0 .. 2 /\ entry' \in Views \cup {Gone}
<1> SUFFICES ASSUME TypeOK, FetchInv, [Next]_vars
             PROVE  /\ feed' \in {"reading", "fetching", "showing", "listening", "ended"}
                    /\ held' \in Views /\ heard' \in 0 .. 2 /\ entry' \in Views \cup {Gone}
  OBVIOUS
<1>0. Blank \in Views
  BY ConstantsOK DEF Blank, View, Views, Images
<1>1. ASSUME NEW p \in Pictures \cup {NoPicture}, NewProfile(p)
      PROVE  heard' \in 0 .. 2 /\ UNCHANGED <<feed, held, entry>>
  BY <1>1 DEF NewProfile, Hear
<1>2. CASE OtherChange
  BY <1>2 DEF OtherChange, Hear, TypeOK
<1>3. CASE ReadProfile
  <2>1. pics[Newest] \in Pictures \cup {NoPicture} /\ Newest \in 0 .. MaxProfiles
    BY DEF TypeOK, Newest
  <2>2. held' = View(Newest, pics[Newest], "none") /\ feed' \in {"showing", "fetching"}
        /\ UNCHANGED <<heard, entry>>
    BY <1>3 DEF ReadProfile
  <2> QED
    BY <2>1, <2>2 DEF TypeOK, View, Views, Images
<1>4. CASE Picture
  <2>1. Image(fetch[Feed]) \in Images
    BY DEF TypeOK, Fetchers, Image, Images
  <2>2. held' \in Views
    BY <1>4, <2>1 DEF Picture, TypeOK, Views
  <2> QED
    BY <1>4, <2>2 DEF Picture, TypeOK
<1>5. CASE Show
  BY <1>0, <1>5 DEF Show, TypeOK
<1>6. CASE Listen
  BY <1>6 DEF Listen, TypeOK
<1>7. CASE Delete
  BY <1>7 DEF Delete, TypeOK
<1>8. CASE Restart
  BY <1>0, <1>8 DEF Restart, TypeOK
<1>9. CASE UNCHANGED feeding
  BY <1>9 DEF feeding, TypeOK
<1> QED
  BY <1>1, <1>2, <1>3, <1>4, <1>5, <1>6, <1>7, <1>8, <1>9
  DEF Next, vars, TypeOK, Fetching, Feeding, Trimming, Upload, Expire, Call, Serve, Save, Lose, CallTrim,
      SendTrim, HangUp, Elapse, TrimDue, TrimAsked, TrimFails

Calls == [Trimmers -> {"idle", "sending", "queued", "answered", "failed"}]

LEMMA TrimTypes ==
  TypeOK /\ [Next]_vars =>
    /\ deadline' \in {"ahead", "past"} /\ trim' \in {"up", "ended"}
    /\ command' \in Seq(Trimmers) /\ Len(command') <= 1 /\ calls' \in Calls
<1> SUFFICES ASSUME TypeOK, [Next]_vars
             PROVE  /\ deadline' \in {"ahead", "past"} /\ trim' \in {"up", "ended"}
                    /\ command' \in Seq(Trimmers) /\ Len(command') <= 1 /\ calls' \in Calls
  OBVIOUS
<1>0. /\ deadline \in {"ahead", "past"} /\ trim \in {"up", "ended"}
      /\ command \in Seq(Trimmers) /\ Len(command) <= 1 /\ calls \in Calls
  BY DEF TypeOK, Calls
<1>1. ASSUME NEW t \in Trimmers, CallTrim(t) \/ SendTrim(t) \/ HangUp(t)
      PROVE  /\ UNCHANGED <<deadline, trim>> /\ calls' \in Calls
             /\ command' \in Seq(Trimmers) /\ Len(command') <= 1
  <2>1. CASE CallTrim(t)
    <3>1. CASE trim = "ended"
      BY <1>0, <2>1, <3>1 DEF CallTrim, Calls
    <3>2. CASE trim # "ended"
      BY <1>0, <2>1, <3>2 DEF CallTrim, Calls
    <3> QED
      BY <3>1, <3>2
  <2>2. CASE SendTrim(t)
    BY <1>0, <2>2 DEF SendTrim, Calls
  <2>3. CASE HangUp(t)
    BY <1>0, <2>3 DEF HangUp, Calls
  <2> QED
    BY <1>1, <2>1, <2>2, <2>3
<1>2. CASE Elapse \/ TrimDue
  BY <1>0, <1>2 DEF Elapse, TrimDue
<1>3. CASE TrimAsked
  <2>1. command' = <<>> /\ deadline' = "ahead" /\ trim' = trim
    BY <1>3 DEF TrimAsked
  <2>2. calls' \in Calls
    BY <1>0, <1>3 DEF TrimAsked, Calls
  <2> QED
    BY <1>0, <2>1, <2>2
<1>4. CASE TrimFails
  <2>1. command' = <<>> /\ deadline' = deadline /\ trim' = "ended"
    BY <1>4 DEF TrimFails, TrimEnds
  <2>2. CASE TrimEnds
    BY <1>0, <2>1, <2>2 DEF TrimEnds, Calls
  <2>3. CASE calls' = [t \in Trimmers |-> CASE t = Head(command) -> "answered"
                                             [] calls[t] = "sending" -> "failed"
                                             [] OTHER -> calls[t]]
    BY <1>0, <2>1, <2>3 DEF Calls
  <2> QED
    BY <1>4, <2>2, <2>3 DEF TrimFails
<1>5. CASE Restart
  BY <1>0, <1>5 DEF Restart, AtStart, Calls
<1>6. CASE UNCHANGED trimming
  BY <1>0, <1>6 DEF trimming
<1> QED
  BY <1>0, <1>1, <1>2, <1>3, <1>4, <1>5, <1>6
  DEF Next, vars, Fetching, Feeding, Trimming, Upload, Expire, NewProfile, OtherChange, Call, Serve,
      Save, Lose, ReadProfile, Picture, Show, Listen, Delete

LEMMA OtherTypes ==
  TypeOK /\ [Next]_vars =>
    /\ onServer' \subseteq Pictures
    /\ pics' \in Seq(Pictures \cup {NoPicture}) /\ Newest' \in 1 .. MaxProfiles
    /\ missed' \in BOOLEAN /\ changes' \in 0 .. MaxChanges
<1> SUFFICES ASSUME TypeOK, [Next]_vars
             PROVE  /\ onServer' \subseteq Pictures
                    /\ pics' \in Seq(Pictures \cup {NoPicture}) /\ Newest' \in 1 .. MaxProfiles
                    /\ missed' \in BOOLEAN /\ changes' \in 0 .. MaxChanges
  OBVIOUS
<1>1. ASSUME NEW p \in Pictures, Upload(p) \/ Expire(p)
      PROVE  onServer' \subseteq Pictures /\ UNCHANGED <<pics, missed, changes>>
  BY <1>1 DEF Upload, Expire, TypeOK
<1>2. ASSUME NEW p \in Pictures \cup {NoPicture}, NewProfile(p)
      PROVE  /\ pics' \in Seq(Pictures \cup {NoPicture}) /\ Newest' \in 1 .. MaxProfiles
             /\ missed' \in BOOLEAN /\ UNCHANGED <<onServer, changes>>
  <2>1. Newest' = Newest + 1 /\ Newest < MaxProfiles /\ Newest \in Nat
    BY <1>2 DEF NewProfile, Newest, TypeOK
  <2> QED
    BY <1>2, <2>1, ConstantsOK DEF NewProfile, TypeOK
<1>3. CASE OtherChange
  BY <1>3, ConstantsOK DEF OtherChange, TypeOK, outside, Newest
<1>4. CASE UNCHANGED <<outside, changes>> /\ missed' \in BOOLEAN
  BY <1>4 DEF TypeOK, outside, Newest
<1> QED
  BY <1>1, <1>2, <1>3, <1>4
  DEF Next, vars, TypeOK, outside, Newest, Fetching, Feeding, Trimming, Call, Serve, Save, Lose, ReadProfile,
      Picture, Show, Listen, Delete, Restart, CallTrim, SendTrim, HangUp, Elapse, TrimDue, TrimAsked,
      TrimFails

-----------------------------------------------------------------------------
THEOREM IInvHolds == Spec => []IInv
<1>1. IInv /\ [Next]_vars => IInv'
  <2> SUFFICES ASSUME IInv, [Next]_vars PROVE IInv'
    OBVIOUS
  <2>1. FetchInv' /\ HeldTogether' /\ ShownTogether' /\ HeldIsNewest' /\ ShownUnlessTold'
    BY FetchStep, ShownStep, NewestStep DEF IInv
  <2>2. TypeOK'
    BY FetchStep, FeedTypes, TrimTypes, OtherTypes DEF IInv, TypeOK, Fetch, Calls
  <2> QED
    BY <2>1, <2>2 DEF IInv
<1> QED
  BY InitIInv, <1>1, PTL DEF Spec

\* The state of the cache, the feed and the trimming task always has its type.
THEOREM TypeCorrect == Spec => []TypeOK
<1>1. IInv => TypeOK
  BY DEF IInv
<1> QED
  BY IInvHolds, <1>1, PTL

\* sync_account_state never shows a name with the picture of another profile, however
\* often the profile changes while the picture is fetched.
THEOREM NameAndPictureTogether == Spec => []ShownTogether
<1>1. IInv => ShownTogether
  BY DEF IInv
<1> QED
  BY IInvHolds, <1>1, PTL

\* sync_account_state, once it listens and has heard nothing, shows the newest profile
\* but for one that came while it was not subscribed.
THEOREM ListenerIsUpToDate == Spec => []ShownUnlessTold
<1>1. IInv => ShownUnlessTold
  BY DEF IInv
<1> QED
  BY IInvHolds, <1>1, PTL

\* Only a fetch that was under way when a URL was cached replaces what is cached
\* (CachingHttpExecutor), and there is an end to those.
THEOREM CachedSettles == Spec => CacheSettles
<1> DEFINE Settles == \A p \in Pictures : cache[p] # "none" /\ cache'[p] # cache[p]
                        => \E c \in early : fetch[c].url = p /\ c \notin early'
<1>1. IInv /\ [Next]_vars => [Settles]_vars
  <2> SUFFICES ASSUME IInv, [Next]_vars, NEW p \in Pictures, cache'[p] # cache[p]
               PROVE  \E c \in early : fetch[c].url = p /\ c \notin early'
    OBVIOUS
  <2>1. PICK c \in Fetchers : Save(c)
    BY DEF Next, vars, outside, feeding, trimming, Fetching, Feeding, Trimming, Upload, Expire, NewProfile,
       OtherChange, Call, Serve, Lose, ReadProfile, Picture, Show, Listen, Delete, Restart, CallTrim,
       SendTrim, HangUp, Elapse, TrimDue, TrimAsked, TrimFails
  <2>2. c \in early /\ c \notin early'
    BY <2>1 DEF Save, IInv, FetchInv
  <2>3. fetch[c].url = p
    BY <2>1 DEF Save, IInv, TypeOK
  <2> QED
    BY <2>2, <2>3
<1> QED
  BY IInvHolds, <1>1, PTL DEF Spec, CacheSettles

=============================================================================
