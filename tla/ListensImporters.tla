--------------------------- MODULE ListensImporters ---------------------------
(***************************************************************************)
(* The importers of external services, for one user connected to Last.fm   *)
(* or to Spotify: the rows of external_service_oauth and listens_importer, *)
(* the process that reads the users in batches and imports their plays,    *)
(* and the requests that connect, disconnect, refresh a token and delete   *)
(* the history while a batch is being worked on.                           *)
(*                                                                         *)
(* The plays of the external account are numbered in the order of their    *)
(* times.  What is now playing, the messages and the counts of the status  *)
(* are left out; a play that does not validate would be too.               *)
(***************************************************************************)
EXTENDS Integers, FiniteSets

CONSTANTS
    Services,       \* "lastfm" and "spotify", or one of them
    PageSize,       \* plays on a page of Last.fm
    RecentLimit,    \* plays that Spotify is asked for
    MaxPlays,       \* bound: plays
    MaxTokens,      \* bound: refresh tokens that Spotify issues
    MaxChanges,     \* bound: requests of the user
    MaxErrors,      \* bound: failed requests and crashes of the importer
    Absent          \* no row

ASSUME PageAssumption == PageSize \in Nat \ {0}
ASSUME LimitAssumption == RecentLimit \in Nat \ {0}
ASSUME ChangesAssumption == MaxChanges \in Nat
ASSUME RowAssumption ==
    Absent \notin [id : Nat, token : Nat] \cup [oauth : Nat, latest : Nat, error : {"none", "retry", "final"}]

VARIABLES
    service,    \* the service that the user is connected to
    played,     \* external: the plays so far are 1..played
    valid,      \* external: the refresh tokens that Spotify accepts
    issued,     \* external: refresh tokens so far
    oauth,      \* the row of external_service_oauth
    importer,   \* the row of listens_importer
    run,        \* the batch the importer is working on
    exclude_error,  \* of the importer: whether users with any error are left out
    web,        \* a request that refreshes the token
    queued,     \* the plays that insert_payload has accepted since the history was deleted
    since,      \* history variable: the play from which the user wants imports
    excused,    \* history variable: plays that may have been passed over, see NoneSkipped
    overtaken,  \* history variable: whether something happened that the batch does not see
    changes, errors

importersVars == <<service, played, valid, issued, oauth, importer, run, exclude_error, web, queued, since, excused,
                  overtaken, changes, errors>>

external == <<service, played, valid, issued>>
history == <<since, excused>>

Idle == [at |-> "idle"]
Working == run # Idle

-----------------------------------------------------------------------------
(* The external account. *)

\* Last.fm numbers pages from the newest play: one more play moves the others on.
Play ==
    /\ played < MaxPlays
    /\ played' = played + 1
    /\ overtaken' = (overtaken \/ run.at \in {"page", "record"})
    /\ UNCHANGED <<service, valid, issued, oauth, importer, run, exclude_error, web, queued, since, excused,
                   changes, errors>>

\* The user withdraws the authorisation, or the refresh token expires.
Withdraw ==
    /\ valid # {} /\ changes < MaxChanges
    /\ changes' = changes + 1
    /\ valid' = {}
    /\ UNCHANGED <<service, played, issued, oauth, importer, run, exclude_error, web, queued, since, excused,
                   overtaken, errors>>

After(latest) == {p \in 1..played : p > latest}

total_pages(latest) == (Cardinality(After(latest)) + PageSize - 1) \div PageSize

\* Page 1 holds the newest.
Page(latest, page) ==
    {p \in After(latest) : (page - 1) * PageSize <= played - p /\ played - p < page * PageSize}

\* Spotify answers with so many plays after the latest at most.  Which of them when there are more is Spotify's.
Recent(latest) ==
    {plays \in SUBSET After(latest) :
        \/ plays = After(latest) /\ Cardinality(plays) <= RecentLimit
        \/ Cardinality(plays) = RecentLimit}

-----------------------------------------------------------------------------
(* The statements on the two tables. *)

Joined == oauth # Absent /\ importer # Absent /\ importer.oauth = oauth.id

update_status(error) ==
    importer' = IF importer = Absent THEN Absent ELSE [importer EXCEPT !.error = error]

\* INSERT ... ON CONFLICT DO UPDATE: without a row there is one afterwards, of no connection.
WithLatest(latest) ==
    IF importer = Absent THEN [oauth |-> 0, latest |-> latest, error |-> "none"]
    ELSE [importer EXCEPT !.latest = latest]

\* Mutant: users with an error are left out for good.
Selected_AnyError(row) == row.error = "none"

\* get_active_users_to_process
Selected(row) == row.error = "none" \/ (~exclude_error /\ row.error = "retry")

-----------------------------------------------------------------------------
(* Requests of the user. *)

Ask ==
    /\ changes < MaxChanges
    /\ changes' = changes + 1
    /\ overtaken' = Working
    /\ UNCHANGED <<service, played, run, exclude_error, excused, errors>>

save_token(token, record_listens, latest) ==
    LET id == IF oauth = Absent THEN changes' ELSE oauth.id IN
    /\ oauth' = [id |-> id, token |-> token]
    /\ importer' = IF record_listens THEN [oauth |-> id, latest |-> latest, error |-> "none"] ELSE importer
    /\ since' = IF record_listens THEN latest ELSE since

\* Last.fm: the time from which to import is the user's choice.
music_services_connect ==
    /\ service = "lastfm"
    /\ Ask
    /\ \E latest \in 0..played : save_token(0, TRUE, latest)
    /\ UNCHANGED <<valid, issued, web, queued>>

\* Spotify: the authorisation may be for listening alone, without imports.
music_services_callback ==
    /\ service = "spotify" /\ issued < MaxTokens
    /\ Ask
    /\ issued' = issued + 1
    /\ valid' = valid \cup {issued'}
    /\ \E record_listens \in BOOLEAN : save_token(issued', record_listens, 0)
    /\ UNCHANGED <<web, queued>>

music_services_disconnect ==
    /\ oauth # Absent
    /\ Ask
    /\ oauth' = Absent
    /\ importer' = Absent
    /\ UNCHANGED <<valid, issued, web, queued, since>>

\* The end of delete_listens_history: all of Last.fm is to be imported again.
delete_listens_history ==
    /\ service = "lastfm"
    /\ Ask
    /\ queued' = {}
    /\ importer' = WithLatest(0)
    /\ since' = 0
    /\ UNCHANGED <<valid, issued, oauth, web>>

-----------------------------------------------------------------------------
(* refresh_access_token, of the importer and of a request: Spotify answers *)
(* with an access token, and sometimes a new refresh token that replaces   *)
(* the old one; the row is found by the user.                              *)

\* The answer to token: the refresh token to store.
Refreshed(token, new) ==
    /\ token \in valid
    /\ \/ new = token /\ UNCHANGED <<valid, issued>>
       \/ /\ issued < MaxTokens
          /\ new = issued + 1
          /\ issued' = new
          /\ valid' = (valid \ {token}) \cup {new}

update_token(new) == oauth' = IF oauth = Absent THEN Absent ELSE [oauth EXCEPT !.token = new]

\* invalid_grant: the row of the user is deleted, whatever token it holds by now.
revoke_user ==
    /\ oauth' = Absent
    /\ importer' = IF importer = Absent THEN Absent ELSE [importer EXCEPT !.oauth = 0]

refresh_service_token ==
    /\ service = "spotify" /\ web = Idle /\ oauth # Absent /\ changes < MaxChanges
    /\ changes' = changes + 1
    /\ web' = [at |-> "refresh", token |-> oauth.token]
    /\ UNCHANGED <<external, oauth, importer, run, exclude_error, queued, history, overtaken, errors>>

WebRefreshed ==
    /\ web.at = "refresh"
    /\ \E new \in 1..MaxTokens : Refreshed(web.token, new) /\ web' = [at |-> "store", token |-> new]
    /\ UNCHANGED <<service, played, oauth, importer, run, exclude_error, queued, history, overtaken,
                   changes, errors>>

WebStores ==
    /\ web.at = "store"
    /\ update_token(web.token)
    /\ web' = Idle
    /\ UNCHANGED <<external, importer, run, exclude_error, queued, history, overtaken, changes, errors>>

WebRefused ==
    /\ web.at = "refresh" /\ web.token \notin valid
    /\ revoke_user
    /\ web' = Idle
    /\ UNCHANGED <<external, run, exclude_error, queued, history, overtaken, changes, errors>>

-----------------------------------------------------------------------------
(* The importer. *)

Toggle == exclude_error' = IF service = "lastfm" THEN ~exclude_error ELSE exclude_error

\* The end of a batch: Last.fm's importer takes users with an error in every other one.
EndBatch == run' = Idle /\ Toggle /\ overtaken' = FALSE

\* The batch is read.  By the time its user's turn comes the rows may have changed.
get_active_users_to_process ==
    /\ run = Idle
    /\ IF Joined /\ Selected(importer)
       THEN /\ run' = [at |-> "user", latest |-> importer.latest, token |-> oauth.token]
            /\ overtaken' = FALSE
            /\ UNCHANGED exclude_error
       ELSE EndBatch
    /\ UNCHANGED <<external, oauth, importer, web, queued, history, changes, errors>>

\* The user is Importing, and the pages are counted.
StartLastfm ==
    /\ service = "lastfm" /\ run.at = "user"
    /\ update_status("none")
    /\ run' = [at |-> "page", latest |-> run.latest, page |-> total_pages(run.latest)]
    /\ UNCHANGED <<external, oauth, exclude_error, web, queued, history, overtaken, changes, errors>>

\* Mutant: the time of the import is recorded, not that of the page.
Newest_OfAll(plays) == played

Newest(plays) == CHOOSE p \in plays : \A q \in plays : q <= p

\* The plays of the page are submitted ...
SubmitPage ==
    /\ run.at = "page" /\ run.page > 0
    /\ LET plays == Page(run.latest, run.page) IN
          /\ queued' = queued \cup plays
          /\ run' = IF plays = {} THEN [run EXCEPT !.page = @ - 1]
                    ELSE [at |-> "record", latest |-> run.latest, page |-> run.page,
                          newest |-> Newest(plays)]
    /\ UNCHANGED <<external, oauth, importer, exclude_error, web, history, overtaken, changes, errors>>

NextPage == [at |-> "page", latest |-> run.latest, page |-> run.page - 1]

\* ... and the newest of them is recorded in a transaction of its own.
RecordLatest ==
    /\ run.at = "record"
    /\ importer' = WithLatest(run.newest)
    /\ run' = NextPage
    /\ excused' = IF overtaken THEN excused \cup (1..run.newest \ queued) ELSE excused
    /\ UNCHANGED <<external, oauth, exclude_error, web, queued, since, overtaken, changes, errors>>

SyncedLastfm ==
    /\ run.at = "page" /\ run.page = 0
    /\ update_status("none")
    /\ EndBatch
    /\ UNCHANGED <<external, oauth, web, queued, history, changes, errors>>

\* The access token has expired, or Spotify answers 401.
RefreshSpotify ==
    /\ service = "spotify" /\ run.at = "user"
    /\ \E new \in 1..MaxTokens :
          Refreshed(run.token, new) /\ run' = [at |-> "store", latest |-> run.latest, token |-> new]
    /\ UNCHANGED <<service, played, oauth, importer, exclude_error, web, queued, history, overtaken,
                   changes, errors>>

\* The user is read again; if there is none any more the next line raises.
StoreSpotify ==
    /\ run.at = "store"
    /\ update_token(run.token)
    /\ IF oauth = Absent
       THEN EndBatch
       ELSE /\ run' = [at |-> "plays", token |-> run.token, latest |-> IF Joined THEN importer.latest ELSE 0]
            /\ UNCHANGED <<exclude_error, overtaken>>
    /\ UNCHANGED <<external, importer, web, queued, history, changes, errors>>

RefusedSpotify ==
    /\ service = "spotify" /\ run.at = "user" /\ run.token \notin valid
    /\ revoke_user
    /\ run' = [at |-> "refused"]
    /\ UNCHANGED <<external, exclude_error, web, queued, history, overtaken, changes, errors>>

\* The error is set by the user's id, in a transaction of its own.
ReportRefused ==
    /\ run.at = "refused"
    /\ update_status("final")
    /\ EndBatch
    /\ UNCHANGED <<external, oauth, web, queued, history, changes, errors>>

\* The plays of one answer, the only one that is asked for.  Without any the user is Synced, and an error is forgotten.
\* History: the plays that the answer leaves out although it has newer ones.
SubmitRecent ==
    /\ service = "spotify" /\ run.at \in {"user", "plays"}
    /\ \E plays \in Recent(run.latest) :
          IF plays = {}
          THEN update_status("none") /\ EndBatch /\ UNCHANGED queued
          ELSE /\ queued' = queued \cup plays
               /\ run' = [at |-> "recent", newest |-> Newest(plays),
                          omitted |-> {p \in After(run.latest) \ plays : p < Newest(plays)}]
               /\ UNCHANGED <<importer, exclude_error, overtaken>>
    /\ UNCHANGED <<external, oauth, web, history, changes, errors>>

RecordRecent ==
    /\ run.at = "recent"
    /\ importer' = WithLatest(run.newest)
    /\ excused' = excused \cup run.omitted \cup (IF overtaken THEN 1..run.newest \ queued ELSE {})
    /\ EndBatch
    /\ UNCHANGED <<external, oauth, web, queued, since, changes, errors>>

\* An error of the service's API is stored with the user, one that needs the user for good; a rate
\* limit, and a submission that keeps failing, only end the user's turn.
Fails ==
    /\ run.at \in {"user", "page", "plays"} /\ errors < MaxErrors
    /\ errors' = errors + 1
    /\ \/ \E error \in IF service = "lastfm" THEN {"retry", "final"} ELSE {"retry"} : update_status(error)
       \/ UNCHANGED importer
    /\ EndBatch
    /\ UNCHANGED <<external, oauth, web, queued, history, changes>>

ImporterCrash ==
    /\ Working /\ errors < MaxErrors
    /\ errors' = errors + 1
    /\ run' = Idle
    /\ exclude_error' = TRUE
    /\ overtaken' = FALSE
    /\ UNCHANGED <<external, oauth, importer, web, queued, history, changes>>

-----------------------------------------------------------------------------
ImportersInit ==
    /\ service \in Services
    /\ played = 0 /\ valid = {} /\ issued = 0
    /\ oauth = Absent /\ importer = Absent
    /\ run = Idle /\ exclude_error = TRUE /\ web = Idle
    /\ queued = {} /\ since = 0 /\ excused = {} /\ overtaken = FALSE
    /\ changes = 0 /\ errors = 0

Change ==
    \/ music_services_connect
    \/ music_services_callback
    \/ music_services_disconnect
    \/ delete_listens_history
    \/ refresh_service_token

Web ==
    \/ WebRefreshed
    \/ WebStores
    \/ WebRefused

Import ==
    \/ get_active_users_to_process
    \/ StartLastfm \/ SubmitPage \/ RecordLatest \/ SyncedLastfm
    \/ RefreshSpotify \/ StoreSpotify \/ RefusedSpotify \/ ReportRefused
    \/ SubmitRecent \/ RecordRecent

ImportersNext ==
    \/ Play
    \/ Withdraw
    \/ Change
    \/ Web
    \/ Import
    \/ Fails
    \/ ImporterCrash

ImportersSpec == ImportersInit /\ [][ImportersNext]_importersVars

\* The importer loops for ever, every ten seconds.
ImportersFairSpec == ImportersSpec /\ WF_importersVars(Import)

-----------------------------------------------------------------------------
(* Properties. *)

\* The row of listens_importer refers to a token only while there is one, its latest time is that of a
\* play, and only a batch at work can be overtaken: a token that is revoked takes the reference along.
ImportersTypeOK ==
    /\ oauth = Absent \/ (oauth.id \in 1..MaxChanges /\ oauth.token \in 0..issued)
    /\ importer = Absent \/ (/\ importer.oauth # 0 => Joined
                             /\ importer.latest \in 0..played
                             /\ importer.error \in {"none", "retry", "final"})
    /\ queued \subseteq 1..played /\ valid \subseteq 1..issued
    /\ overtaken => Working

\* What lies behind the latest time that is recorded has been accepted, through crashes and failed
\* pages.  Excused are plays that a batch passes over because a play arrived while it worked through
\* the pages, or because the user connected anew or deleted the history behind its back, and those that
\* Spotify's answer left out because there were more than were asked for.
NoneSkipped ==
    Joined => \A p \in 1..played : since < p /\ p <= importer.latest => p \in queued \cup excused

\* The user's plays are being imported.
Active == Joined /\ importer.error # "final"

NotImported(p) == p <= played /\ p > since /\ p \notin queued \cup excused

\* Every play of an active user is imported in the end: an error that is worth retrying does not
\* stop Last.fm's importer.
PlaysArrive ==
    \A p \in 1..MaxPlays :
        (service = "lastfm" /\ Active /\ NotImported(p)) ~> ~(Active /\ NotImported(p))

\* The same of either importer: update_status says of an error's retry "whether to retry the import on next
\* run".
RetriedAfterError ==
    \A p \in 1..MaxPlays : (Active /\ NotImported(p)) ~> ~(Active /\ NotImported(p))

\* A batch may pass over no play at all.
NoneExcused == excused = {}

\* What is behind the play that a turn of Spotify's records has been submitted, unless something has overtaken it.
NothingOmitted == [][RecordRecent /\ ~overtaken => excused' = excused]_importersVars

\* A connection is only given up when Spotify no longer accepts its token, or by the user.
ConnectionKept ==
    [][oauth # Absent /\ oauth' = Absent /\ changes' = changes => oauth.token \notin valid]_importersVars

=============================================================================
