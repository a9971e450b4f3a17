----------------------------- MODULE ConfigFields -----------------------------
(***************************************************************************)
(* The fields of proxy_config.json: what normalizeProxyConfig makes of     *)
(* them at every load and save (netmonitor-gui/main.go), and the page that *)
(* keeps the applications it was answered and posts them back              *)
(* (frontend/app.js).  ConfigStore models how requests and file operations *)
(* interleave and takes a configuration for a set of applications; here a  *)
(* request is one step, and a configuration is what it consists of.        *)
(*                                                                         *)
(* Identifiers are numbers: 0 is a missing one, n the proxy "proxy-n" or   *)
(* an application's uuid, uuid.NewString and crypto.randomUUID taking the  *)
(* next number.  Names are left out, and spaces around values are gone.    *)
(***************************************************************************)
EXTENDS Naturals, SequencesExt

CONSTANTS
  OldFiles, \* the configurations that an older version or a hand can have left
  Urls,     \* what a user enters as an application's proxy; NoUrl clears it
  NoUrl,    \* the empty string
  MaxApps,  \* bound: applications
  MaxUuid   \* bound: uuids drawn

VARIABLES
  stored, \* proxy_config.json
  shown,  \* config.applications of the page; the page posts nothing else
  open,   \* the page has loaded
  saved,  \* the program has saved the file
  uuid,   \* the last one that was drawn
  unsaved, \* history: a save has failed since the page's last answer, and the
           \* page and the file may differ
  entered  \* history: the proxies <<id, proxy>> whose saving failed since then

fieldVars == <<stored, shown, open, saved, uuid, unsaved, entered>>

Proxies == [id : Nat, url : STRING]
Applications == [id : Nat, pid : Nat, proxy : STRING, named : BOOLEAN]
Devices == {"none", "default", "own"}
Fields == [url : STRING, device : Devices, proxies : Seq(Proxies), apps : Seq(Applications)]

(* No two applications with one id; 0 is none.                             *)
DistinctIds(apps) ==
  \A i, j \in DOMAIN apps : i # j /\ apps[i].id # 0 => apps[i].id # apps[j].id

(* An older version's ids are among 1..MaxApps; ids of applications are    *)
(* uuids in every version.                                                 *)
ASSUME FieldsAssumption ==
  /\ MaxApps \in Nat /\ MaxUuid \in Nat
  /\ NoUrl \in STRING /\ Urls \subseteq STRING
  /\ OldFiles \subseteq Fields
  /\ \A old \in OldFiles :
       /\ Len(old.apps) <= MaxApps /\ DistinctIds(old.apps)
       /\ \A i \in DOMAIN old.apps : old.apps[i].id <= MaxApps

FieldsInit ==
  /\ stored \in OldFiles
  /\ shown = <<>>
  /\ open = FALSE
  /\ saved = FALSE
  /\ uuid = MaxApps
  /\ unsaved = FALSE
  /\ entered = {}

-----------------------------------------------------------------------------
ProxyIds(proxies) == {proxies[i].id : i \in DOMAIN proxies}

(* Entries without URL are dropped; one without id is named by its place,  *)
(* and of two with the same id the first remains.                          *)
AddProxy(proxies, item) ==
  LET id == IF item.id = 0 THEN Len(proxies) + 1 ELSE item.id
  IN  IF item.url = NoUrl \/ id \in ProxyIds(proxies) THEN proxies
      ELSE Append(proxies, [id |-> id, url |-> item.url])

(* The elements of s that are in T, as a loop keeps them that skips others. *)
Keep(s, T) ==
  LET kept[n \in 0..Len(s)] ==
        IF n = 0 THEN <<>>
        ELSE IF s[n] \in T THEN Append(kept[n - 1], s[n]) ELSE kept[n - 1]
  IN  kept[Len(s)]

(* The proxies; the URL of the oldest format is one if there is no other.  *)
NormalProxies(fields) ==
  LET added[n \in 0..Len(fields.proxies)] ==
        IF n = 0 THEN <<>> ELSE AddProxy(added[n - 1], fields.proxies[n])
      proxies == added[Len(fields.proxies)]
  IN  IF proxies = <<>> /\ fields.url # NoUrl
      THEN <<[id |-> 1, url |-> fields.url]>> ELSE proxies

(* Mutation of NormalApp: the old format's proxy replaces the chosen one.  *)
NormalAppOverwritten(app, proxies, fresh) ==
  LET named == {i \in DOMAIN proxies : proxies[i].id = app.pid}
  IN  [app EXCEPT
        !.id    = IF @ = 0 THEN fresh ELSE @,
        !.proxy = IF app.pid # 0 /\ named # {} THEN proxies[CHOOSE i \in named : TRUE].url ELSE @,
        !.pid   = IF proxies # <<>> /\ @ \notin ProxyIds(proxies) THEN proxies[1].id ELSE @]

(* An application gets an id, the URL of the proxy that the old format     *)
(* names, if it has none, and after that the first proxy's id in place of  *)
(* one that is missing or unknown.                                         *)
NormalApp(app, proxies, fresh) ==
  LET named == {i \in DOMAIN proxies : proxies[i].id = app.pid}
  IN  [app EXCEPT
        !.id    = IF @ = 0 THEN fresh ELSE @,
        !.proxy = IF @ = NoUrl /\ app.pid # 0 /\ named # {}
                  THEN proxies[CHOOSE i \in named : TRUE].url ELSE @,
        !.pid   = IF proxies # <<>> /\ @ \notin ProxyIds(proxies) THEN proxies[1].id ELSE @]

(* normalizeProxyConfig, with uuids above from; an application without     *)
(* path and process name is dropped.                                       *)
Normalize(fields, from) ==
  LET proxies == NormalProxies(fields)
      apps    == [i \in DOMAIN fields.apps |-> NormalApp(fields.apps[i], proxies, from + i)]
  IN  [fields EXCEPT
        !.device  = IF @ = "none" THEN "default" ELSE @,
        !.proxies = proxies,
        !.apps    = Keep(apps, {app \in Range(apps) : app.named})]

(* loadProxyConfig and saveProxyConfig normalise too.  A handler calls     *)
(* them in turn, so each draws the uuids above those of the ones before.   *)
Drawn(n) == uuid + n * MaxApps
Loaded == Normalize(stored, Drawn(0))
Save(fields) ==
  /\ stored' = Normalize(fields, Drawn(2))
  /\ saved' = TRUE

(* os.WriteFile fails before it has emptied the file, or after it: what    *)
(* remains then cannot be decoded, and is loaded as nothing.               *)
NoFields == [url |-> NoUrl, device |-> "none", proxies |-> <<>>, apps |-> <<>>]
SaveFails ==
  /\ stored' \in {stored, NoFields}
  /\ UNCHANGED saved

Draws == uuid + 3 * MaxApps <= MaxUuid /\ uuid' = uuid + 3 * MaxApps

(* The page takes over the applications that it is answered.               *)
Answer(apps) ==
  /\ shown' = apps
  /\ unsaved' = FALSE
  /\ entered' = {}
Application == [id |-> Drawn(0) + MaxApps, pid |-> 0, proxy |-> NoUrl, named |-> TRUE]

(* GET /proxy-config: load() of the page.  Nothing is saved.               *)
Get ==
  /\ Draws
  /\ Answer(Loaded.apps)
  /\ open' = TRUE
  /\ UNCHANGED <<stored, saved>>

(* POST /proxy-config, of the applications that the page holds: it is      *)
(* normalised before it is saved, and answered so.                         *)
Post(apps) ==
  LET body   == [url |-> NoUrl, device |-> "none", proxies |-> <<>>, apps |-> apps]
      fields == Normalize(body, Drawn(1))
  IN  /\ open
      /\ Draws
      /\ Save(fields)
      /\ Answer(fields.apps)
      /\ UNCHANGED open

(* A POST /proxy-config that answers 500.  The page has changed before it  *)
(* posts and remains so: save() throws where it decodes the answer.        *)
PostFails(apps) ==
  /\ open
  /\ Draws
  /\ SaveFails
  /\ shown' = apps
  /\ unsaved' = TRUE
  /\ UNCHANGED open

(* The page saves when a proxy was changed, and when a shortcut was moved, *)
(* or opened with a double click.                                          *)
WithProxy(i, proxy) == [shown EXCEPT ![i].proxy = proxy]
Moved(i, j) == InsertAt(RemoveAt(shown, i), j, shown[i])

ChangeProxy(i, proxy) == Post(WithProxy(i, proxy))
Move(i, j) == Post(Moved(i, j))
DoubleClick == Post(shown)

ChangeProxyFails(i, proxy) ==
  /\ PostFails(WithProxy(i, proxy))
  /\ entered' = {change \in entered : change[1] # shown[i].id} \union {<<shown[i].id, proxy>>}
MoveFails(i, j) == PostFails(Moved(i, j)) /\ UNCHANGED entered
DoubleClickFails == PostFails(shown) /\ UNCHANGED entered

(* POST /applications and /applications/choose-exe: the answer is          *)
(* normalised apart from what is saved.                                    *)
AddApplication ==
  LET fields == [Loaded EXCEPT !.apps = Append(@, Application)]
  IN  /\ open
      /\ Len(stored.apps) < MaxApps
      /\ Draws
      /\ Save(fields)
      /\ Answer(Normalize(fields, Drawn(1)).apps)
      /\ UNCHANGED open

(* Mutation of RemoveApplication: from the file as it is.                  *)
RemoveFromFile(i) ==
  LET fields == [stored EXCEPT !.apps = Keep(@, {app \in Range(@) : app.id # shown[i].id})]
  IN  /\ open
      /\ Draws
      /\ Save(fields)
      /\ Answer(Normalize(fields, Drawn(1)).apps)
      /\ UNCHANGED open

(* DELETE /applications.                                                   *)
RemoveApplication(i) ==
  LET fields == [Loaded EXCEPT !.apps = Keep(@, {app \in Range(@) : app.id # shown[i].id})]
  IN  /\ open
      /\ Draws
      /\ Save(fields)
      /\ Answer(Normalize(fields, Drawn(1)).apps)
      /\ UNCHANGED open

(* An addition or a removal that answers 500: the page stays as it was.    *)
ApplicationsFail ==
  /\ open
  /\ Draws
  /\ SaveFails
  /\ unsaved' = (unsaved \/ stored' # stored)
  /\ UNCHANGED <<shown, open, entered>>

FieldsNext ==
  \/ Get
  \/ \E i \in DOMAIN shown : \E proxy \in Urls \union {NoUrl} :
       ChangeProxy(i, proxy) \/ ChangeProxyFails(i, proxy)
  \/ \E i, j \in DOMAIN shown : i # j /\ (Move(i, j) \/ MoveFails(i, j))
  \/ DoubleClick \/ DoubleClickFails
  \/ AddApplication
  \/ \E i \in DOMAIN shown : RemoveApplication(i)
  \/ ApplicationsFail

FieldsSpec == FieldsInit /\ [][FieldsNext]_fieldVars

-----------------------------------------------------------------------------
(* Once the program has saved the file, the page's applications are the    *)
(* stored ones, in the same order and under the same ids, so a DELETE or a *)
(* launch names an application that exists, and every proxy the page shows *)
(* is the one that the next load finds (handleProxyConfig and              *)
(* handleApplications normalise what they answer apart from what they      *)
(* save, and the next load normalises that again).  A save that fails may  *)
(* part them, and the next answer joins them again, whatever has failed    *)
(* before it.  It need not be so before the first save, when an            *)
(* application without id has another one at every load, nor where no      *)
(* proxy is shown: the next load may fill in the first one of an old list. *)
ShownIsStored ==
  saved /\ ~unsaved =>
    LET apps == Loaded.apps
    IN  /\ Len(shown) = Len(apps)
        /\ \A i \in DOMAIN apps :
             /\ shown[i].id = apps[i].id /\ shown[i].id # 0
             /\ shown[i].proxy # NoUrl => apps[i].proxy = shown[i].proxy

(* An application's proxy is the user's: whatever is loaded, filled in     *)
(* from an old format, moved, added, removed and saved, or fails to be     *)
(* saved, it changes only to the proxy that the user enters for that       *)
(* application, or has entered last for it when the saving failed          *)
(* (normalizeProxyConfig, main.go:466-481).                                *)
ChosenProxyKept ==
  [][\A i \in DOMAIN stored.apps, j \in DOMAIN stored'.apps :
       LET old == stored.apps[i]
           new == stored'.apps[j]
       IN  (old.id = new.id /\ old.id # 0 /\ old.proxy \notin {NoUrl, new.proxy})
             => \/ \E k \in DOMAIN shown : shown[k].id = old.id /\ ChangeProxy(k, new.proxy)
                \/ <<old.id, new.proxy>> \in entered]_fieldVars
=============================================================================
