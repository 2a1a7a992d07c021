---------------------------- MODULE NodeStorage -----------------------------
(***************************************************************************)
(* What a node of main.cpp keeps over a restart: its identity, preferences *)
(* and contacts.  setup and a save of the contacts take several steps,     *)
(* between which power may be lost.  Here the node is an access point,     *)
(* which sets out with its proxy among the contacts.                       *)
(*                                                                         *)
(* External: the contact table of BaseChatMesh, the identity store, and    *)
(* the file system, which truncates a file it opens for writing, leaves    *)
(* alone one it cannot open, and keeps what was written of a file when     *)
(* power is lost.                                                          *)
(***************************************************************************)
EXTENDS Naturals, SequencesExt

CONSTANTS
  Ids,           \* nodes that may become contacts
  Proxy,         \* the node of PROXY_NODE_PUBKEY
  MaxContacts,   \* room in the table
  Keys,          \* identities this node may generate
  None,
  Earlier        \* contacts the node may already have on file, as a proxy say

ASSUME StorageAssumption ==
  Proxy \in Ids /\ MaxContacts \in Nat \ {0} /\ None \notin Ids \cup Keys

Contact == [id : Ids, path : {0, 1}]

(* The file was written by this program, from a table that had no more     *)
(* room and every contact once.                                            *)
ASSUME EarlierAssumption ==
  \A table \in Earlier :
    /\ table \in Seq(Contact) /\ Len(table) <= MaxContacts
    /\ \A m, n \in DOMAIN table : table[m].id = table[n].id => m = n

VARIABLES
  pc,            \* "off", "asleep", "setup", "begin", "keygen", "discover", "reset",
                 \* "ready", "loop", "save", "halted"
  after,         \* where a save of the contacts returns to
  toSave,        \* contacts still to be written
  ap_initialized,
  self_id,
  contacts,      \* sequence of [id, path]; path 0 is none
  prefs,         \* octets of two preferences, of two and of one; 0 is the default
  curr_recipient,
  contactsFile,  \* complete records of "/contacts"
  prefsFile,     \* octets of "/node_prefs"
  identityFile,
  kept,          \* history: contacts as last changed in memory
  contactsSaved, \* history: how the file stands to kept: "whole", "part" or "old"
  prefsSaved,    \* history: how the file stands to prefs, likewise
  advertised,    \* history: identities the mesh was told of
  storeFailed    \* history: an identity was not stored

ram == <<ap_initialized, self_id, contacts, prefs, curr_recipient>>
files == <<contactsFile, prefsFile, identityFile>>
vars == <<pc, after, toSave, ram, files, kept, contactsSaved, prefsSaved, advertised, storeFailed>>

DefaultPrefs == <<0, 0, 0>>

(* The octets of the frequency, which stand before the power. *)
Frequency == {1, 2}
Power == {3}

(* "set": all octets of a preference get the new value. *)
WithPref(octets, v) == [n \in DOMAIN prefs |-> IF n \in octets THEN v ELSE prefs[n]]

KnownIds == {contacts[n].id : n \in DOMAIN contacts}

HasRoom == Len(contacts) < MaxContacts

(* Faulty variant: getProxyContact is not looked at. *)
NeverMissing == FALSE

ProxyMissing == Proxy \notin KnownIds

WithPath(id, path) ==
  [n \in DOMAIN contacts |->
    IF contacts[n].id = id THEN [id |-> id, path |-> path] ELSE contacts[n]]

Init ==
  /\ pc = "off" /\ after = "off" /\ toSave = <<>>
  /\ ap_initialized = FALSE
  /\ self_id = None /\ contacts = <<>> /\ prefs = DefaultPrefs /\ curr_recipient = None
  /\ contactsFile \in Earlier /\ prefsFile = <<>> /\ identityFile = None
  /\ kept = contactsFile /\ contactsSaved = "whole" /\ prefsSaved = "whole"
  /\ advertised = {} /\ storeFailed = FALSE

----------------------------------------------------------------------------
(* Files *)

(* Faulty variant: a change of the contacts is not saved. *)
ChangeOnly(table, return) ==
  /\ contacts' = table
  /\ kept' = table
  /\ pc' = return
  /\ UNCHANGED <<toSave, contactsFile, contactsSaved, after>>

(* saveContacts: the file is opened, which empties it, then the records    *)
(* are written in the order of the table.  When it cannot be opened        *)
(* nothing is written.                                                     *)
SaveContacts(table, return) ==
  /\ contacts' = table
  /\ kept' = table
  /\ \/ /\ toSave' = table
        /\ contactsFile' = <<>>
        /\ contactsSaved' = "part"
        /\ pc' = "save" /\ after' = return
     \/ /\ contactsSaved' = "old"
        /\ pc' = return
        /\ UNCHANGED <<toSave, contactsFile, after>>

(* A record that cannot be written whole ends the save; what there is of   *)
(* it is no record to loadContacts.                                        *)
SaveRecord ==
  /\ pc = "save"
  /\ \/ /\ toSave # <<>>
        /\ contactsFile' = Append(contactsFile, Head(toSave))
        /\ toSave' = Tail(toSave)
        /\ UNCHANGED <<pc, after, contactsSaved>>
     \/ /\ toSave # <<>>
        /\ toSave' = <<>>
        /\ pc' = after /\ after' = "off"
        /\ UNCHANGED <<contactsFile, contactsSaved>>
     \/ /\ toSave = <<>>
        /\ pc' = after /\ after' = "off"
        /\ contactsSaved' = "whole"
        /\ UNCHANGED <<contactsFile, toSave>>
  /\ UNCHANGED <<ram, prefsFile, prefsSaved, identityFile, kept, advertised, storeFailed>>

(* savePrefs: one write of all octets, of which power loss or a full file  *)
(* system may leave a part, not always of whole preferences.  When the     *)
(* file cannot be opened it keeps what it had.                             *)
SavePrefs(p) ==
  /\ prefs' = p
  /\ \/ \E n \in 0..Len(p) :
          /\ prefsFile' = SubSeq(p, 1, n)
          /\ prefsSaved' = IF n = Len(p) THEN "whole" ELSE "part"
     \/ prefsSaved' = "old" /\ UNCHANGED prefsFile

----------------------------------------------------------------------------
(* Starting *)

(* Without power all memory is lost: it is next as its initialisers leave  *)
(* it.  A node goes to sleep at the end of a pass of loop.                 *)
PowerDown ==
  /\ \/ pc # "off" /\ pc' = "off"
     \/ pc = "loop" /\ pc' = "asleep"
  /\ after' = "off" /\ toSave' = <<>>
  /\ ap_initialized' = FALSE
  /\ self_id' = None /\ contacts' = <<>> /\ prefs' = DefaultPrefs /\ curr_recipient' = None
  /\ UNCHANGED <<files, kept, contactsSaved, prefsSaved, advertised, storeFailed>>

(* setup, up to radio_init; the access point may fail to start, and then   *)
(* the node goes on without it.                                            *)
Setup ==
  /\ \/ pc \in {"off", "asleep"} /\ pc' = "setup" /\ ap_initialized' \in BOOLEAN
     \/ pc = "setup" /\ pc' \in {"begin", "halted"} /\ UNCHANGED ap_initialized
  /\ UNCHANGED <<after, toSave, self_id, contacts, prefs, curr_recipient, files, kept,
                 contactsSaved, prefsSaved, advertised, storeFailed>>

(* The octets on file are read over the defaults. *)
Overlaid(file) ==
  [n \in DOMAIN DefaultPrefs |-> IF n <= Len(file) THEN file[n] ELSE DefaultPrefs[n]]

(* A file that is there and cannot be opened leaves the defaults. *)
LoadPrefs ==
  \/ prefs' = Overlaid(prefsFile) /\ prefsSaved' = "whole"
  \/ prefsFile # <<>> /\ prefs' = DefaultPrefs /\ prefsSaved' = "old"

(* loadContacts: contacts are added until one does not fit; none are when  *)
(* the file cannot be opened.                                              *)
LoadContacts ==
  /\ \/ /\ contacts' = SubSeq(contactsFile, 1,
             IF Len(contactsFile) < MaxContacts THEN Len(contactsFile) ELSE MaxContacts)
        /\ contactsSaved' = "whole"
     \/ contactsFile # <<>> /\ contacts' = <<>> /\ contactsSaved' = "old"
  /\ kept' = contacts'

Load ==
  /\ LoadPrefs
  /\ LoadContacts
  /\ pc' = IF ap_initialized THEN "discover" ELSE "ready"

Begin ==
  /\ pc = "begin"
  /\ \/ identityFile # None /\ self_id' = identityFile /\ Load
     \/ /\ identityFile = None
        /\ pc' = "keygen"
        /\ UNCHANGED <<self_id, prefs, contacts, kept, contactsSaved, prefsSaved>>
  /\ UNCHANGED <<after, toSave, ap_initialized, curr_recipient, files, advertised, storeFailed>>

(* Faulty variant: the new identity is only kept in memory. *)
NotStored(key) == UNCHANGED <<identityFile, storeFailed>>

(* store.save, whose result is not looked at. *)
StoreIdentity(key) ==
  \/ identityFile' = key /\ UNCHANGED storeFailed
  \/ storeFailed' = TRUE /\ UNCHANGED identityFile

(* "Press ENTER to generate key". *)
GenerateKey ==
  /\ pc = "keygen"
  /\ \E key \in Keys : self_id' = key /\ StoreIdentity(key)
  /\ Load
  /\ UNCHANGED <<after, toSave, ap_initialized, curr_recipient, contactsFile, prefsFile,
                 advertised>>

(* startProxyDiscovery: the proxy is added from PROXY_NODE_PUBKEY unless   *)
(* it is a contact; an advert is sent before.                              *)
StartProxyDiscovery ==
  /\ pc = "discover"
  /\ \/ /\ ~ProxyMissing
        /\ pc' = "reset"
        /\ UNCHANGED <<after, toSave, contacts, contactsFile, kept, contactsSaved, advertised>>
     \/ /\ ProxyMissing
        /\ advertised' = advertised \cup {self_id}
        /\ IF HasRoom
           THEN SaveContacts(Append(contacts, [id |-> Proxy, path |-> 0]), "reset")
           ELSE /\ pc' = "ready"
                /\ UNCHANGED <<after, toSave, contacts, contactsFile, kept, contactsSaved>>
  /\ UNCHANGED <<ap_initialized, self_id, prefs, curr_recipient, prefsFile, prefsSaved,
                 identityFile, storeFailed>>

ResetProxyPath ==
  /\ pc = "reset"
  /\ SaveContacts(WithPath(Proxy, 0), "ready")
  /\ UNCHANGED <<ap_initialized, self_id, prefs, curr_recipient, prefsFile, prefsSaved,
                 identityFile, advertised, storeFailed>>

(* "Setup complete!" *)
SendSelfAdvert ==
  /\ pc = "ready"
  /\ pc' = "loop"
  /\ advertised' = advertised \cup {self_id}
  /\ UNCHANGED <<after, toSave, ram, files, kept, contactsSaved, prefsSaved, storeFailed>>

----------------------------------------------------------------------------
(* The loop *)

(* An advert or an imported card makes a contact while there is room, a    *)
(* packet may bring a new path, and a repeated ping resets the path to the *)
(* proxy; all are saved.                                                   *)
MeshLoop ==
  /\ pc = "loop"
  /\ \/ \E id \in Ids \ KnownIds :
          /\ HasRoom
          /\ SaveContacts(Append(contacts, [id |-> id, path |-> 0]), "loop")
     \/ \E id \in KnownIds : SaveContacts(WithPath(id, 1), "loop")
     \/ ap_initialized /\ ~ProxyMissing /\ SaveContacts(WithPath(Proxy, 0), "loop")
  /\ UNCHANGED <<ap_initialized, self_id, prefs, curr_recipient, prefsFile, prefsSaved,
                 identityFile, advertised, storeFailed>>

(* handleCommand: "to", "reset path" and "set" are the commands that       *)
(* change what is modelled here.                                           *)
HandleCommand ==
  /\ pc = "loop"
  /\ \/ /\ curr_recipient' \in KnownIds \cup {None}
        /\ UNCHANGED <<pc, after, toSave, contacts, prefs, contactsFile, prefsFile, kept,
                       contactsSaved, prefsSaved>>
     \/ /\ curr_recipient # None
        /\ SaveContacts(WithPath(curr_recipient, 0), "loop")
        /\ UNCHANGED <<prefs, curr_recipient, prefsFile, prefsSaved>>
     \/ /\ \E octets \in {Frequency, Power}, v \in {0, 1} : SavePrefs(WithPref(octets, v))
        /\ UNCHANGED <<pc, after, toSave, contacts, curr_recipient, contactsFile, kept, contactsSaved>>
  /\ UNCHANGED <<ap_initialized, self_id, identityFile, advertised, storeFailed>>

Next ==
  \/ PowerDown \/ Setup \/ Begin \/ GenerateKey
  \/ StartProxyDiscovery \/ ResetProxyPath \/ SendSelfAdvert
  \/ MeshLoop \/ HandleCommand \/ SaveRecord

Spec == Init /\ [][Next]_vars

----------------------------------------------------------------------------
(* Correctness *)

(* Where a save returns to, and the values of memory and files. *)
TypeOK ==
  /\ after \in {"off", "reset", "ready", "loop"} /\ (pc = "save" => after # "off")
  /\ toSave \in Seq(Contact) /\ contacts \in Seq(Contact) /\ contactsFile \in Seq(Contact)
  /\ Len(contacts) <= MaxContacts
  /\ self_id \in Keys \cup {None} /\ identityFile \in Keys \cup {None}
  /\ prefs \in [1..3 -> {0, 1}] /\ prefsFile \in Seq({0, 1})
  /\ curr_recipient \in KnownIds \cup {None}

(* The file always holds a table that loads in full, each contact once.    *)
(* It is the table the node last had, or a beginning of it, in the same    *)
(* order, when power was lost or a write failed in the course of the last  *)
(* save.  After an open that failed it is an earlier table.                *)
ContactsSurvive ==
  /\ contactsSaved = "whole" => contactsFile = kept
  /\ contactsSaved = "part" => IsPrefix(contactsFile, kept)
  /\ \A table \in {contactsFile, kept} :
       /\ Len(table) <= MaxContacts
       /\ \A m, n \in DOMAIN table : table[m].id = table[n].id => m = n
  /\ pc = "loop" => contacts = kept

(* Whatever was lost of the contacts, in the loop the access point knows   *)
(* its proxy, unless the table is full of others.                          *)
ProxyKnown == pc = "loop" /\ ap_initialized => Proxy \in KnownIds \/ Len(contacts) = MaxContacts

(* A restart brings the preferences back as they are in memory.  When     *)
(* their save was cut it brings the last value up to some octet and the    *)
(* default after it, so that only the preference the cut goes through is   *)
(* neither.  After an open that failed it brings back earlier ones.        *)
PrefsSurvive ==
  pc = "loop" =>
    /\ prefsSaved = "whole" => Overlaid(prefsFile) = prefs
    /\ prefsSaved = "part" =>
         \E last \in 0..Len(DefaultPrefs) :
           \A n \in DOMAIN prefs :
             Overlaid(prefsFile)[n] = IF n <= last THEN prefs[n] ELSE DefaultPrefs[n]

(* What is on flash can be trusted at the next start. *)
FilesSurvive == ContactsSurvive /\ PrefsSurvive

(* The mesh never meets this node under two identities, however often it   *)
(* is restarted and whenever power is lost, unless storing the first one   *)
(* failed.                                                                 *)
OneIdentity == ~storeFailed => \A a, b \in advertised : a = b

============================================================================
