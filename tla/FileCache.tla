------------------------------ MODULE FileCache ------------------------------
(***************************************************************************)
(* The files of an account: API calls that get one (service/account/       *)
(* get_file.rs) through the HTTP cache in the database (http_api/          *)
(* caching.rs, db/http_cache.rs), the task that shows the account's name   *)
(* and picture in the list of accounts (sync_account_state in              *)
(* service/manager/state.rs), and the task that trims the cache            *)
(* (worker/trim_file_cache.rs), whose deadline is kept in the database.    *)
(*                                                                         *)
(* A profile is its place in pics, the picture URLs of the account's       *)
(* successive profiles.  A response is its class: "file" for 2xx,          *)
(* "refusal" for 3xx and 4xx, "outage" for 5xx.  A deadline is ahead or    *)
(* past.                                                                   *)
(***************************************************************************)
EXTENDS Naturals, Sequences

CONSTANTS
  Callers,      \* API calls for a file
  Feed,         \* sync_account_state, as one that gets files
  Pictures,     \* URLs of pictures; no two differ in case only, which look-ups ignore
  Corrupt,      \* those whose file does not decrypt with the profile's key
  NoPicture,
  Trimmers,     \* API calls that trim the cache
  MaxProfiles,  \* bound: profiles
  MaxChanges,   \* bound: notifications that bring no other profile
  Gone          \* the entry of an account that was deleted

Fetchers == Callers \cup {Feed}
Responses == {"file", "refusal", "outage"}

ASSUME ConstantsOK ==
  /\ Feed \notin Callers /\ NoPicture \notin Pictures /\ Corrupt \subseteq Pictures
  /\ MaxProfiles \in Nat \ {0} /\ MaxChanges \in Nat
  /\ Gone \notin [profile : Nat, url : Pictures \cup {NoPicture}, image : Responses \cup {"none"}]

VARIABLES
  \* the file server and the user's profile
  onServer,  \* pictures the server has
  pics,      \* the picture of each profile; the last one is in UserProfileConfig
  \* the database
  cache,     \* http_cache: the class of the response kept for each URL
  deadline,  \* next_trim_file_deadline: "none" yet, "ahead" or "past"
  \* getting files
  fetch,     \* what each fetcher waits for
  \* the feed
  feed,      \* "reading", "fetching", "showing", "listening" or "ended"
  held,      \* the profile and the image it is going to show
  heard,     \* notifications in its receiver; 2: it lags behind a channel of one
  entry,     \* the account's entry in the list of accounts
  \* trimming
  trim,      \* the trimming task: "up" or "ended"
  command,   \* mpsc(1): calls to trim
  calls,     \* where each call to trim is
  \* history
  early,     \* fetchers whose fetch began while its URL was not cached
  missed,    \* a profile came between the feed's reading and listening
  changes

outside == <<onServer, pics>>
feeding == <<feed, held, heard, entry>>
trimming == <<deadline, trim, command, calls>>
vars == <<outside, cache, fetch, feeding, trimming, early, missed, changes>>

NoFetch == [at |-> "idle", url |-> NoPicture, response |-> "none"]
View(profile, url, image) == [profile |-> profile, url |-> url, image |-> image]
Blank == View(0, NoPicture, "none")
Newest == Len(pics)

\* Mutant: trimming: every start counts the interval from now.
AtStartAfresh(d) == "ahead"

\* Trimming: the deadline of the last run goes on.
AtStart(d) == IF d = "none" THEN "ahead" ELSE d

Init ==
  /\ onServer \in SUBSET Pictures /\ pics \in {<<p>> : p \in Pictures \cup {NoPicture}}
  /\ cache = [p \in Pictures |-> "none"] /\ deadline = AtStart("none")
  /\ fetch = [c \in Fetchers |-> NoFetch]
  /\ feed = "reading" /\ held = Blank /\ heard = 0 /\ entry = Blank
  /\ trim = "up" /\ command = <<>> /\ calls = [t \in Trimmers |-> "idle"]
  /\ early = {} /\ missed = FALSE /\ changes = 0

-----------------------------------------------------------------------------
\* The server, and other devices of the user.

Upload(p) ==
  /\ p \notin onServer /\ onServer' = onServer \cup {p}
  /\ UNCHANGED <<pics, cache, fetch, feeding, trimming, early, missed, changes>>

Expire(p) ==
  /\ p \in onServer /\ onServer' = onServer \ {p}
  /\ UNCHANGED <<pics, cache, fetch, feeding, trimming, early, missed, changes>>

\* A broadcast channel of one, with the feed's receiver if it has one now.
Hear == heard' = IF feed # "listening" THEN 0 ELSE IF heard = 0 THEN 1 ELSE 2

\* A merge that changes the profile.
NewProfile(p) ==
  /\ Newest < MaxProfiles /\ pics' = Append(pics, p) /\ Hear
  /\ missed' = (missed \/ feed \in {"fetching", "showing"})
  /\ UNCHANGED <<onServer, cache, fetch, feed, held, entry, trimming, early, changes>>

\* Any other merge, push() or confirm_pushed().
OtherChange ==
  /\ changes < MaxChanges /\ changes' = changes + 1 /\ Hear
  /\ UNCHANGED <<outside, cache, fetch, feed, held, entry, trimming, early, missed>>

-----------------------------------------------------------------------------
\* CachingHttpExecutor.

\* Mutant: what is cached is not used.
AskUncached(c, p) ==
  /\ fetch' = [fetch EXCEPT ![c] = [at |-> "asked", url |-> p, response |-> "none"]]
  /\ early' = IF cache[p] = "none" THEN early \cup {c} ELSE early \ {c}

\* The end of a fetch: the feed goes on with the response, a call returns it.
Ended(c, url, response) ==
  IF c = Feed THEN [at |-> "done", url |-> url, response |-> response] ELSE NoFetch

\* The cache answers at once; only a URL that it lacks is asked for.  Fetches of
\* one URL do not know of each other.  One fails if the look-up does, and before
\* it if no server or community of the account has the URL's host.
Ask(c, p) ==
  \/ /\ \E r \in {"none", cache[p]} : fetch' = [fetch EXCEPT ![c] = Ended(c, p, r)]
     /\ early' = early \ {c}
  \/ /\ cache[p] = "none"
     /\ fetch' = [fetch EXCEPT ![c] = [at |-> "asked", url |-> p, response |-> "none"]]
     /\ early' = early \cup {c}

Serve(c) ==
  /\ fetch[c].at = "asked"
  /\ \E r \in {"outage", IF fetch[c].url \in onServer THEN "file" ELSE "refusal"} :
       fetch' = [fetch EXCEPT ![c].at = "answered", ![c].response = r]
  /\ UNCHANGED <<outside, cache, feeding, trimming, early, missed, changes>>

\* Every response but a server error is saved, over one that is there; if it
\* cannot be saved the call fails.
Save(c) ==
  /\ fetch[c].at = "answered"
  /\ LET url == fetch[c].url  r == fetch[c].response IN
     \/ /\ cache' = IF r # "outage" THEN [cache EXCEPT ![url] = r] ELSE cache
        /\ fetch' = [fetch EXCEPT ![c] = Ended(c, url, r)]
     \/ /\ r # "outage" /\ UNCHANGED cache
        /\ fetch' = [fetch EXCEPT ![c] = Ended(c, url, "none")]
  /\ early' = early \ {c}
  /\ UNCHANGED <<outside, feeding, trimming, missed, changes>>

\* The network fails.
Lose(c) ==
  /\ fetch[c].at = "asked"
  /\ fetch' = [fetch EXCEPT ![c] = Ended(c, fetch[c].url, "none")] /\ early' = early \ {c}
  /\ UNCHANGED <<outside, cache, feeding, trimming, missed, changes>>

\* get_encrypted_file: a file is decrypted; any other response is passed on.
Image(f) == IF f.response = "file" /\ f.url \in Corrupt THEN "none" ELSE f.response

Call(c, p) ==
  /\ fetch[c].at = "idle" /\ Ask(c, p)
  /\ UNCHANGED <<outside, cache, feeding, trimming, missed, changes>>

-----------------------------------------------------------------------------
\* sync_account_state.

\* A URL or a key that does not parse would end the feed; profile_pic() gives none.
ReadProfile ==
  /\ feed = "reading" /\ missed' = FALSE
  /\ LET p == pics[Newest] IN
     IF p = NoPicture
     THEN /\ feed' = "showing" /\ held' = View(Newest, p, "none")
          /\ UNCHANGED <<fetch, early>>
     ELSE feed' = "fetching" /\ held' = View(Newest, p, "none") /\ Ask(Feed, p)
  /\ UNCHANGED <<outside, cache, heard, entry, trimming, changes>>

\* The picture is whatever body came, or none after an error.
Picture ==
  /\ feed = "fetching" /\ fetch[Feed].at = "done"
  /\ feed' = "showing" /\ held' = [held EXCEPT !.image = Image(fetch[Feed])]
  /\ fetch' = [fetch EXCEPT ![Feed] = NoFetch]
  /\ UNCHANGED <<outside, cache, heard, entry, trimming, early, missed, changes>>

\* Mutant: the name is read when the picture is there.
ShowNameNow ==
  /\ feed = "showing" /\ feed' = "listening" /\ heard' = 0 /\ held' = Blank
  /\ entry' = IF entry = Gone THEN Gone ELSE [held EXCEPT !.profile = Newest]
  /\ UNCHANGED <<outside, cache, fetch, trimming, early, missed, changes>>

\* Mutant: a profile whose picture cannot be had is not shown.
ShowWithPicture ==
  /\ feed = "showing" /\ feed' = "listening" /\ heard' = 0 /\ held' = Blank
  /\ entry' = IF entry = Gone \/ (held.image = "none" /\ held.url # NoPicture) THEN entry ELSE held
  /\ UNCHANGED <<outside, cache, fetch, trimming, early, missed, changes>>

\* The entry is changed if the account is still listed, and a new receiver hears
\* what is sent from now on.
Show ==
  /\ feed = "showing" /\ feed' = "listening" /\ heard' = 0 /\ held' = Blank
  /\ entry' = IF entry = Gone THEN Gone ELSE held
  /\ UNCHANGED <<outside, cache, fetch, trimming, early, missed, changes>>

\* A receiver that lags gives an error, and the task ends for good.
Listen ==
  /\ feed = "listening" /\ heard > 0 /\ heard' = 0
  /\ feed' = IF heard = 1 THEN "reading" ELSE "ended"
  /\ UNCHANGED <<outside, cache, fetch, held, entry, trimming, early, missed, changes>>

\* The manager deletes the account; its feed is not told.
Delete ==
  /\ entry # Gone /\ entry' = Gone
  /\ UNCHANGED <<outside, cache, fetch, feed, held, heard, trimming, early, missed, changes>>

-----------------------------------------------------------------------------
\* trim_file_cache.

\* Whoever waits for the task is told by the end of its channel.
TrimEnds ==
  /\ trim' = "ended" /\ command' = <<>>
  /\ calls' = [t \in Trimmers |-> IF calls[t] \in {"sending", "queued"} THEN "failed" ELSE calls[t]]

Elapse ==
  /\ deadline = "ahead" /\ deadline' = "past"
  /\ UNCHANGED <<outside, cache, fetch, feeding, trim, command, calls, early, missed, changes>>

CallTrim(t) ==
  /\ calls[t] = "idle" /\ calls' = [calls EXCEPT ![t] = IF trim = "ended" THEN "failed" ELSE "sending"]
  /\ UNCHANGED <<outside, cache, fetch, feeding, deadline, trim, command, early, missed, changes>>

SendTrim(t) ==
  /\ calls[t] = "sending" /\ command = <<>>
  /\ command' = <<t>> /\ calls' = [calls EXCEPT ![t] = "queued"]
  /\ UNCHANGED <<outside, cache, fetch, feeding, deadline, trim, early, missed, changes>>

\* One turn, for the deadline or for a command.  trim_cache deletes nothing.
TrimDue ==
  /\ trim = "up" /\ deadline = "past" /\ deadline' = "ahead"
  /\ UNCHANGED <<outside, cache, fetch, feeding, trim, command, calls, early, missed, changes>>

TrimAsked ==
  /\ trim = "up" /\ command # <<>> /\ command' = <<>>
  /\ calls' = [calls EXCEPT ![Head(command)] = "answered"] /\ deadline' = "ahead"
  /\ UNCHANGED <<outside, cache, fetch, feeding, trim, early, missed, changes>>

\* The database fails in trim_cache, or after the answer in the save of the deadline.
TrimFails ==
  /\ trim = "up" /\ (deadline = "past" \/ command # <<>>)
  /\ \/ TrimEnds
     \/ /\ command # <<>> /\ trim' = "ended" /\ command' = <<>>
        /\ calls' = [t \in Trimmers |-> CASE t = Head(command) -> "answered"
                                          [] calls[t] = "sending" -> "failed"
                                          [] OTHER -> calls[t]]
  /\ UNCHANGED <<outside, cache, fetch, feeding, deadline, early, missed, changes>>

HangUp(t) ==
  /\ calls[t] \in {"answered", "failed"} /\ calls' = [calls EXCEPT ![t] = "idle"]
  /\ UNCHANGED <<outside, cache, fetch, feeding, deadline, trim, command, early, missed, changes>>

-----------------------------------------------------------------------------
\* The process stops, starts, and a request starts the account.  The entry is as
\* the manager saved it last; an older one is as good as a blank one.  The trimming
\* task ends if it cannot load its deadline.
Restart ==
  /\ fetch' = [c \in Fetchers |-> NoFetch] /\ early' = {}
  /\ entry' \in (IF entry = Gone THEN {Gone} ELSE {entry, Blank})
  /\ feed' = (IF entry = Gone THEN "ended" ELSE "reading")
  /\ held' = Blank /\ heard' = 0 /\ missed' = FALSE
  /\ \/ trim' = "up" /\ deadline' = AtStart(deadline)
     \/ trim' = "ended" /\ UNCHANGED deadline
  /\ command' = <<>> /\ calls' = [t \in Trimmers |-> "idle"]
  /\ UNCHANGED <<outside, cache, changes>>

Fetching(c) == Serve(c) \/ Save(c) \/ Lose(c)
Feeding == ReadProfile \/ Picture \/ Show \/ Listen
Trimming == TrimDue \/ TrimAsked \/ TrimFails

Next ==
  \/ \E p \in Pictures : Upload(p) \/ Expire(p) \/ \E c \in Callers : Call(c, p)
  \/ \E p \in Pictures \cup {NoPicture} : NewProfile(p)
  \/ OtherChange
  \/ \E c \in Fetchers : Fetching(c)
  \/ Feeding \/ Delete
  \/ \E t \in Trimmers : CallTrim(t) \/ SendTrim(t) \/ HangUp(t)
  \/ Elapse \/ Trimming \/ Restart

Spec == Init /\ [][Next]_vars

\* Tasks run, and the network answers or fails in the end; when the process
\* stops, and whether a call of the trimming task fails, is free.  A start leaves
\* the trimming task time for its first turn.
Fairness ==
  /\ WF_vars(ReadProfile) /\ WF_vars(Picture) /\ WF_vars(Show) /\ WF_vars(Listen)
  /\ WF_vars(Fetching(Feed))
  /\ WF_vars(Elapse) /\ WF_vars(TrimDue \/ TrimFails) /\ WF_vars(TrimAsked \/ TrimFails)
  /\ \A t \in Trimmers : SF_vars(SendTrim(t))

FairSpec == Spec /\ Fairness

-----------------------------------------------------------------------------
Images == Responses \cup {"none"}
Views == [profile : 0 .. MaxProfiles, url : Pictures \cup {NoPicture}, image : Images]

TypeOK ==
  /\ onServer \subseteq Pictures
  /\ pics \in Seq(Pictures \cup {NoPicture}) /\ Newest \in 1 .. MaxProfiles
  /\ cache \in [Pictures -> {"none", "file", "refusal"}]
  /\ fetch \in [Fetchers -> [at : {"idle", "asked", "answered", "done"},
                             url : Pictures \cup {NoPicture}, response : Images]]
  /\ feed \in {"reading", "fetching", "showing", "listening", "ended"}
  /\ held \in Views /\ heard \in 0 .. 2 /\ entry \in Views \cup {Gone}
  /\ deadline \in {"ahead", "past"} /\ trim \in {"up", "ended"}
  /\ command \in Seq(Trimmers) /\ Len(command) <= 1
  /\ calls \in [Trimmers -> {"idle", "sending", "queued", "answered", "failed"}]
  /\ early \subseteq Fetchers /\ missed \in BOOLEAN /\ changes \in 0 .. MaxChanges

\* A cached response is replaced only by a fetch that began before it was cached:
\* a URL that has settled gives every later call the same answer.
CacheSettles ==
  [][\A p \in Pictures : cache[p] # "none" /\ cache'[p] # cache[p]
       => \E c \in early : fetch[c].url = p /\ c \notin early']_vars

\* The list never shows a picture with a name from another profile.
ShownTogether ==
  entry \notin {Gone, Blank} => entry.profile \in 1 .. Newest /\ entry.url = pics[entry.profile]

\* If the process stays up, the newest profile is shown, unless it came between the
\* feed's reading and its listening, or the feed lagged behind and ended.
ProfileIsShown ==
  <>[][~Restart]_vars =>
    (TRUE ~> entry = Gone \/ entry.profile = Newest \/ missed \/ feed = "ended")

\* However often the process is restarted, trimming comes again and again, unless
\* the database fails its task again and again.
TrimsThoughRestarted == []<>(trim = "ended") \/ []<><<TrimDue \/ TrimAsked>>_vars

=============================================================================
