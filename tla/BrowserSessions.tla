----------------------------- MODULE BrowserSessions -----------------------------
(***************************************************************************)
(* The browsers of a thread: core/discovery.py's shared Playwright driver, *)
(* Google's browser and the browser for official sites, released by        *)
(* core/workflow.py before it fetches, and by services/discovery_debug.py  *)
(* as its session is left; and the browser of core/fetch.py, which starts  *)
(* a driver of its own. A thread of the pool serves one product after      *)
(* another: verifications, and /discover.                                  *)
(*                                                                         *)
(* Playwright (external) refuses a second driver in a thread, and Chromium *)
(* a second process on Google's profile directory, which all threads share.*)
(* The deadline of a search may pass at any moment.                        *)
(***************************************************************************)
EXTENDS FetchProperties, FiniteSets

CONSTANTS
  Roots,        \* the roots that the brand suggests
  MaxPages,     \* max_pages
  Shown,        \* the pages that official sites show
  MaxHolders,   \* bound: holders of one driver
  Pool,         \* bound: the threads that search; the others only fetch
  NoThread

(* A page: whether it is a challenge, and the brand's; its links. A link: where *)
(* it is found, whether its site is the page's, it leads to a homepage or a     *)
(* catalog, to a static file, and the model is in its title or address, or near.*)
Link == [source : {"anchor", "canonical", "payload", "json_ld"},
         own : BOOLEAN, landing : BOOLEAN, asset : BOOLEAN, named : BOOLEAN, nearby : BOOLEAN]

ASSUME BrowserAssumption ==
  /\ Roots \in Nat /\ MaxPages \in Nat \ {0} /\ MaxHolders \in Nat /\ NoThread \notin Threads
  /\ Pool \subseteq Threads
  /\ Shown \subseteq [blocked : BOOLEAN, brand : BOOLEAN, links : SUBSET Link, xhr : SUBSET Link]

VARIABLES
  driver,       \* _drivers: how many hold the thread's driver; 0, if it has none
  google,       \* the fields of the thread's GoogleSearchSession
  renderer,     \* the fields of its _PlaywrightRenderer
  official,     \* its BrowserOfficialDiscoveryProvider
  work,         \* what the thread does for which kind of request
  profile,      \* the thread whose Chromium has Google's profile directory
  left          \* history: threads with a driver since a launch broke, or a browser was left open

sessionVars == <<driver, google, renderer, official, work, profile, left>>
everything == <<vars, sessionVars>>

(* A handle, and a page to work with; a handle and no page; a browser whose    *)
(* handle is gone.                                                             *)
Held == {"open", "stuck"}
Unvisited == [pages |-> 0, known |-> FALSE]
Rest == [kind |-> "none", at |-> "rest", root |-> 0]

SessionTypeOK ==
  /\ driver \in [Threads -> 0 .. MaxHolders + 2]
  /\ google \in [Threads -> Held \cup {"closed", "orphan"}]
  /\ renderer \in [Threads -> Held \cup {"closed"}]
  /\ official \in [Threads -> [pages : 0 .. MaxPages, known : BOOLEAN]]
  /\ work \in [Threads -> [kind : {"none", "verify", "discover"}, root : 0 .. 3,
                           at : {"rest", "searching", "homepage", "site_search", "fetching"}]]
  /\ profile \in Threads \cup {NoThread} /\ left \subseteq Threads

SessionInit ==
  /\ Init
  /\ driver = [t \in Threads |-> 0]
  /\ google = [t \in Threads |-> "closed"] /\ renderer = [t \in Threads |-> "closed"]
  /\ official = [t \in Threads |-> Unvisited] /\ work = [t \in Threads |-> Rest]
  /\ profile = NoThread /\ left = {}

At(t, where) == work' = [work EXCEPT ![t].at = where]

(* A request takes a free thread, with a search session that goes with it.     *)
Serve(t, kind) ==
  /\ work[t] = Rest
  /\ work' = [work EXCEPT ![t] = [kind |-> kind, at |-> "searching", root |-> 0]]
  /\ UNCHANGED <<driver, google, renderer, official, profile, left>>

End(t) ==
  /\ work' = [work EXCEPT ![t] = Rest]
  /\ official' = [official EXCEPT ![t] = Unvisited]

-----------------------------------------------------------------------------
(* _SharedPlaywrightHandle                                                     *)

Acquired(n) == n + 1
Stopped(n, handles) == n - handles

(* GoogleSearchSession._ensure_page: Google's answer over HTTP was of no use.   *)
(* A profile directory in use, one's own browser's too, breaks the launch; the *)
(* handle is given back, and what the session had is forgotten.                *)
GoogleLaunchFails(t) ==
  /\ google' = [google EXCEPT ![t] = IF @ = "stuck" THEN "orphan" ELSE @]
  /\ left' = IF google[t] = "stuck" THEN left \cup {t} ELSE left
  /\ UNCHANGED <<driver, profile>>

GoogleLaunches(t) ==
  /\ profile = NoThread /\ driver[t] < MaxHolders
  /\ driver' = [driver EXCEPT ![t] = Acquired(@)]
  /\ profile' = t
  /\ \/ google' = [google EXCEPT ![t] = "open"] /\ UNCHANGED left
     \/ google' = [google EXCEPT ![t] = "stuck"] /\ UNCHANGED left  \* no page in it

AskGoogle(t) ==
  /\ work[t].at = "searching" /\ google[t] # "open"
  /\ GoogleLaunchFails(t) \/ GoogleLaunches(t)
  /\ UNCHANGED <<renderer, official, work>>

-----------------------------------------------------------------------------
(* BrowserOfficialDiscoveryProvider                                            *)

Sites == 1 .. Smaller(2, Roots)

(* search_with_timeout: the sites are visited once for a product.              *)
AskOfficial(t) ==
  /\ work[t].at = "searching" /\ ~official[t].known
  /\ work' = [work EXCEPT ![t].at = "homepage", ![t].root = 1]
  /\ UNCHANGED <<driver, google, renderer, official, profile, left>>

(* _PlaywrightRenderer._ensure_page: without a page it acquires a driver, again *)
(* when an earlier launch broke, and what it had is forgotten.                 *)
Opened(t) ==
  LET Opening(r, n, in) == [renderer |-> r, driver |-> n, broke |-> in] IN
  IF renderer[t] = "open" THEN {Opening("open", driver[t], FALSE)}
  ELSE {Opening("open", Acquired(driver[t]), FALSE), Opening("stuck", Acquired(driver[t]), TRUE)}
       \cup (IF driver[t] = 0 THEN {Opening(renderer[t], 0, FALSE)} ELSE {})

(* _extract_domain_links, with the links of JSON-LD in a rendered page, and     *)
(* _exact of what it found.                                                    *)
Eligible(l) ==
  /\ l.own /\ ~l.landing
  /\ l.source \in {"anchor", "payload"} => ~l.asset
  /\ l.named \/ (l.source # "anchor" /\ l.nearby)

Exact(page) ==
  \E l \in page.links \cup {x \in page.xhr : x.source # "json_ld"} : Eligible(l) /\ l.named

(* _discover ends: what it found is kept, also when that is nothing. Its root   *)
(* and the pages it has counted matter no more.                                *)
Known(t) ==
  /\ official' = [official EXCEPT ![t] = [pages |-> 0, known |-> TRUE]]
  /\ work' = [work EXCEPT ![t].at = "searching", ![t].root = 0]
NextRoot(t, o) ==
  /\ official' = [official EXCEPT ![t] = o]
  /\ work' = [work EXCEPT ![t].at = "homepage", ![t].root = @ + 1]

(* No root, page or time is left.                                              *)
SitesVisited(t) ==
  /\ work[t].at \in {"homepage", "site_search"} /\ Known(t)
  /\ UNCHANGED <<driver, google, renderer, profile, left>>

(* What _discover does with a page it was shown: a challenge ends the visit,    *)
(* whatever is left.                                                           *)
Visited(t, page, o) ==
  LET own == work[t].at = "site_search" \/ page.brand IN
  IF page.blocked \/ (own /\ Exact(page)) THEN Known(t)
  ELSE IF ~own THEN NextRoot(t, o)
  ELSE IF work[t].at = "site_search" \/ o.pages = MaxPages THEN NextRoot(t, o)
  ELSE official' = [official EXCEPT ![t] = o] /\ At(t, "site_search")

(* _render: a page is counted before its browser is there. A navigation that    *)
(* raises, and an error status, show nothing.                                  *)
Visit(t) ==
  /\ work[t].at \in {"homepage", "site_search"} /\ work[t].root \in Sites
  /\ official[t].pages < MaxPages
  /\ renderer[t] = "open" \/ driver[t] < MaxHolders
  /\ \E opened \in Opened(t) :
       LET o == [official[t] EXCEPT !.pages = @ + 1] IN
       /\ renderer' = [renderer EXCEPT ![t] = opened.renderer]
       /\ driver' = [driver EXCEPT ![t] = opened.driver]
       /\ left' = IF opened.broke THEN left \cup {t} ELSE left
       /\ \/ NextRoot(t, o)
          \/ opened.renderer = "open" /\ \E page \in Shown : Visited(t, page, o)
  /\ UNCHANGED <<google, profile>>

-----------------------------------------------------------------------------
(* The end of a search                                                         *)

(* Handles among the fields of providers in these states.                      *)
Handles(states) == Cardinality({i \in DOMAIN states : states[i] \in Held})

(* Mutant: the profile is left to whoever closes the driver.                    *)
GoogleHandleReleased(t) ==
  /\ google' = [google EXCEPT ![t] = "closed"]
  /\ profile' = IF google[t] \in Held THEN NoThread ELSE profile

(* GoogleSearchSession.release_transient_resources: it closes its Chromium also *)
(* without a handle to its driver.                                             *)
GoogleReleased(t) ==
  /\ google' = [google EXCEPT ![t] = "closed"]
  /\ profile' = IF google[t] = "closed" THEN profile ELSE NoThread

(* Mutant: a session releases nothing but Google's browser.                    *)
GoogleOnlyReleased(t) ==
  /\ driver' = [driver EXCEPT ![t] = Stopped(@, Handles(<<google[t]>>))]
  /\ UNCHANGED renderer

BothReleased(t) ==
  /\ driver' = [driver EXCEPT ![t] = Stopped(@, Handles(<<google[t], renderer[t]>>))]
  /\ renderer' = [renderer EXCEPT ![t] = "closed"]

(* _discover_initial_ and _discover_targeted_with_released_browser: then the    *)
(* workflow fetches, or a browser that could not be closed ends it.            *)
Release(t) ==
  /\ work[t].at = "searching" /\ work[t].kind = "verify"
  /\ GoogleReleased(t) /\ BothReleased(t)
  /\ \/ At(t, "fetching") /\ UNCHANGED official
     \/ google[t] # "closed" /\ End(t)
  /\ left' = IF driver'[t] = 0 THEN left \ {t} ELSE left

(* /discover leaves its session, whose __exit__ knows Google's browser only.    *)
LeaveSession(t) ==
  /\ work[t].at = "searching" /\ work[t].kind = "discover"
  /\ GoogleReleased(t)
  /\ driver' = [driver EXCEPT ![t] = Stopped(@, Handles(<<google[t]>>))]
  /\ renderer' = [renderer EXCEPT ![t] = "closed"]   \* with its provider
  /\ left' = IF renderer[t] = "closed" THEN left ELSE left \cup {t}
  /\ End(t)

(* Fetches done: a targeted search, with the same session, or the end.          *)
FetchesDone(t) ==
  /\ work[t].at = "fetching" /\ pc[t] = "idle"
  /\ \/ At(t, "searching") /\ UNCHANGED official
     \/ End(t)
  /\ UNCHANGED <<driver, google, renderer, profile, left>>

-----------------------------------------------------------------------------
(* The workflow's fetches, in the same thread: _fetch_with_playwright fails in  *)
(* a thread that has a driver.                                                 *)
FetchStep(t) ==
  \/ (t \in Pool => work[t].at = "fetching") /\ \E c \in Candidates : Begin(t, c)
  \/ Step(t) /\ (pc[t] = "rendering" /\ driver[t] > 0 => result'[t].status = "error")

SearchStep(t) ==
  \/ \E kind \in {"verify", "discover"} : Serve(t, kind)
  \/ AskGoogle(t) \/ AskOfficial(t) \/ SitesVisited(t) \/ Visit(t)
  \/ Release(t) \/ LeaveSession(t) \/ FetchesDone(t)

SessionNext ==
  \/ \E t \in Threads : FetchStep(t) /\ UNCHANGED sessionVars
  \/ \E t \in Pool : SearchStep(t) /\ UNCHANGED vars
  \/ Tick /\ UNCHANGED sessionVars

SessionSpec == SessionInit /\ [][SessionNext]_everything

-----------------------------------------------------------------------------
(* A fetch finds its thread without a driver, hence can render, unless a launch *)
(* broke half-way in this thread or /discover left a browser open there: the    *)
(* handles that two providers share are given back, in whatever states they     *)
(* are when the search ends ("``stop`` only shuts it down when the last holder  *)
(* releases it", core/discovery.py).                                            *)
DriverReturned ==
  \A t \in Threads : work[t].at = "fetching" /\ driver[t] > 0 => t \in left

(* No thread keeps Google's profile directory from the others after its search, *)
(* however its launches ended.                                                  *)
ProfileReturned ==
  \A t \in Threads : profile = t => work[t].at \notin {"rest", "fetching"}
=============================================================================
