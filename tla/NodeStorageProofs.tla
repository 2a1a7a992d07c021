------------------------- MODULE NodeStorageProofs -------------------------
(* Why what NodeStorage keeps on flash can be trusted, for any number of   *)
(* contacts, identities, saves, failures and losses of power.  The         *)
(* invariant has five parts: control, contacts, preferences, identity and  *)
(* the proxy.                                                              *)
EXTENDS NodeStorage, TLAPS, SequenceTheorems

(* The files were read into memory. *)
Loaded == pc \in {"discover", "reset", "ready", "loop", "save"}

Places == {"off", "asleep", "setup", "begin", "keygen", "discover", "reset", "ready",
           "loop", "save", "halted"}

(* t starts with s. *)
Begins(s, t) == Len(s) <= Len(t) /\ \A n \in 1..Len(s) : s[n] = t[n]

OnceEach(table) == \A m, n \in DOMAIN table : table[m].id = table[n].id => m = n

IdsOf(table) == {table[n].id : n \in DOMAIN table}

IsTable(table) ==
  table \in Seq(Contact) /\ Len(table) <= MaxContacts /\ OnceEach(table)

(* The rest of the table follows what is on file. *)
Saving ==
  /\ contactsSaved = "part"
  /\ Len(contactsFile) + Len(toSave) = Len(kept)
  /\ \A n \in 1..Len(toSave) : toSave[n] = kept[Len(contactsFile) + n]

ContactsOK ==
  /\ IsTable(kept) /\ IsTable(contactsFile)
  /\ contactsSaved \in {"whole", "part", "old"}
  /\ contactsSaved # "old" => Begins(contactsFile, kept)
  /\ toSave \in Seq(Contact)
  /\ contacts = IF Loaded THEN kept ELSE <<>>
  /\ contactsSaved = "whole" => contactsFile = kept
  /\ pc = "save" => Saving

PrefsOK ==
  /\ prefs \in [1..3 -> {0, 1}]
  /\ prefsFile \in Seq({0, 1})
  /\ Len(prefsFile) <= 3
  /\ prefsSaved \in {"whole", "part", "old"}
  /\ Loaded =>
       /\ prefsSaved = "whole" => Overlaid(prefsFile) = prefs
       /\ prefsSaved = "part" => \A n \in 1..Len(prefsFile) : prefsFile[n] = prefs[n]

IdentityOK ==
  /\ self_id \in Keys \cup {None} /\ identityFile \in Keys \cup {None}
  /\ pc = "keygen" => identityFile = None
  /\ ~storeFailed /\ Loaded => self_id = identityFile /\ identityFile # None
  /\ ~storeFailed => \A a \in advertised : a = identityFile /\ a # None

Control ==
  /\ pc \in Places
  /\ after \in {"off", "reset", "ready", "loop"} /\ (pc = "save" => after # "off")
  /\ curr_recipient \in KnownIds \cup {None}

(* The program is at pc, or will be when the save it is in returns. *)
At(place) == pc = place \/ (pc = "save" /\ after = place)

ProxyOK ==
  /\ At("reset") => Proxy \in KnownIds
  /\ (At("ready") \/ At("loop")) /\ ap_initialized =>
       Proxy \in KnownIds \/ Len(contacts) = MaxContacts

IndInv == Control /\ ContactsOK /\ PrefsOK /\ IdentityOK /\ ProxyOK

----------------------------------------------------------------------------
(* Tables *)

LEMMA SeqFacts ==
  ASSUME NEW S, NEW s \in Seq(S)
  PROVE  /\ Len(s) \in Nat /\ DOMAIN s = 1..Len(s)
         /\ s \in [1..Len(s) -> S]
         /\ s = <<>> <=> Len(s) = 0
  OBVIOUS

LEMMA EmptyTable == IsTable(<<>>)
  BY StorageAssumption DEF IsTable, OnceEach

(* A prefix of a table is one, and the longest prefix is all of it. *)
LEMMA PrefixTable ==
  ASSUME NEW table, IsTable(table), NEW s \in Seq(Contact), Begins(s, table)
  PROVE  /\ IsTable(s) /\ IsPrefix(s, table)
         /\ Len(s) = Len(table) => s = table
  <1>1. /\ table \in Seq(Contact) /\ Len(table) \in Nat /\ Len(s) \in Nat
        /\ DOMAIN table = 1..Len(table) /\ DOMAIN s = 1..Len(s)
        /\ Len(s) <= Len(table) /\ Len(table) <= MaxContacts
    BY SeqFacts DEF IsTable, Begins
  <1>2. \A n \in DOMAIN s : n \in DOMAIN table /\ s[n] = table[n]
    BY <1>1 DEF Begins
  <1>3. OnceEach(s)
    BY <1>2 DEF OnceEach, IsTable
  <1>4. Len(s) = Len(table) => s = table
    BY <1>1, <1>2, SeqEqual
  <1>5. IsPrefix(s, table)
    <2> DEFINE a == SubSeq(s, 1, Len(s))
               b == SubSeq(table, 1, Len(s))
    <2>1. \A n \in 1..Len(s) : s[n] \in Contact /\ table[n] \in Contact
      BY <1>1
    <2>2. /\ a \in Seq(Contact) /\ Len(a) = Len(s)
          /\ b \in Seq(Contact) /\ Len(b) = Len(s)
          /\ \A n \in 1..Len(s) : a[n] = s[n] /\ b[n] = table[n]
      BY <1>1, <2>1
    <2> HIDE DEF a, b
    <2>3. a = b
      BY <1>1, <1>2, <2>2, SeqEqual
    <2> QED
      BY <1>1, <2>3 DEF IsPrefix, a, b
  <1>6. Len(s) <= MaxContacts
    BY <1>1, StorageAssumption
  <1> QED
    BY <1>3, <1>4, <1>5, <1>6 DEF IsTable

(* addContact, for a node that is not yet a contact. *)
LEMMA AddedTable ==
  ASSUME NEW table, IsTable(table), Len(table) < MaxContacts,
         NEW c \in Contact, c.id \notin IdsOf(table)
  PROVE  IsTable(Append(table, c)) /\ IdsOf(Append(table, c)) = IdsOf(table) \cup {c.id}
  <1> DEFINE new == Append(table, c)
  <1>1. /\ table \in Seq(Contact) /\ Len(table) \in Nat /\ DOMAIN table = 1..Len(table)
        /\ OnceEach(table)
    BY SeqFacts DEF IsTable
  <1>2. /\ new \in Seq(Contact) /\ Len(new) = Len(table) + 1
        /\ \A i \in 1..Len(table) : new[i] = table[i]
        /\ new[Len(table) + 1] = c
    BY <1>1, AppendProperties
  <1> HIDE DEF new
  <1>3. DOMAIN new = DOMAIN table \cup {Len(table) + 1} /\ Len(table) + 1 \notin DOMAIN table
    BY <1>1, <1>2, SeqFacts
  <1>4. IdsOf(new) = IdsOf(table) \cup {c.id}
    BY <1>1, <1>2, <1>3 DEF IdsOf
  <1>5. OnceEach(new)
    <2> SUFFICES ASSUME NEW m \in DOMAIN new, NEW n \in DOMAIN new, new[m].id = new[n].id
                 PROVE  m = n
      BY DEF OnceEach
    <2>1. CASE m \in DOMAIN table /\ n \in DOMAIN table
      BY <1>1, <1>2, <2>1 DEF OnceEach
    <2>2. CASE m = Len(table) + 1 /\ n = Len(table) + 1
      BY <2>2
    <2>3. CASE m \in DOMAIN table /\ n = Len(table) + 1
      BY <1>1, <1>2, <2>3 DEF IdsOf
    <2>4. CASE n \in DOMAIN table /\ m = Len(table) + 1
      BY <1>1, <1>2, <2>4 DEF IdsOf
    <2> QED
      BY <1>3, <2>1, <2>2, <2>3, <2>4
  <1>6. Len(new) <= MaxContacts
    BY <1>1, <1>2, StorageAssumption
  <1> QED
    BY <1>2, <1>4, <1>5, <1>6 DEF IsTable, new

(* A new path for one contact. *)
LEMMA PathTable ==
  ASSUME IsTable(contacts), NEW id \in Ids, NEW path \in {0, 1}
  PROVE  /\ IsTable(WithPath(id, path))
         /\ IdsOf(WithPath(id, path)) = IdsOf(contacts)
         /\ Len(WithPath(id, path)) = Len(contacts)
  <1> DEFINE new == WithPath(id, path)
             len == Len(contacts)
  <1>1. /\ contacts \in Seq(Contact) /\ len \in Nat /\ DOMAIN contacts = 1..len
        /\ contacts \in [1..len -> Contact]
    BY SeqFacts DEF IsTable
  <1>2. /\ DOMAIN new = 1..len
        /\ \A n \in 1..len : new[n].id = contacts[n].id /\ new[n] \in Contact
    BY <1>1 DEF WithPath, Contact
  <1>2a. new = [n \in 1..len |-> new[n]]
    BY <1>1 DEF WithPath
  <1> HIDE DEF new
  <1>3. new \in Seq(Contact) /\ Len(new) = len
    BY <1>1, <1>2, <1>2a
  <1>4. OnceEach(new)
    BY <1>1, <1>2 DEF IsTable, OnceEach
  <1>5. IdsOf(new) = IdsOf(contacts)
    BY <1>1, <1>2 DEF IdsOf
  <1> QED
    BY <1>3, <1>4, <1>5 DEF IsTable, new

----------------------------------------------------------------------------
(* What the operations that several actions share do *)

LEMMA ContactsAreTable ==
  ASSUME ContactsOK
  PROVE  IsTable(contacts)
  BY EmptyTable DEF ContactsOK

LEMMA KnownAreIds == KnownIds = IdsOf(contacts)
  BY DEF KnownIds, IdsOf

LEMMA KnownTyped ==
  ASSUME ContactsOK
  PROVE  IsTable(contacts) /\ KnownIds = IdsOf(contacts) /\ KnownIds \subseteq Ids
  <1>1. IsTable(contacts) /\ KnownIds = IdsOf(contacts)
    BY ContactsAreTable, KnownAreIds
  <1>2. contacts \in Seq(Contact)
    BY <1>1 DEF IsTable
  <1>3. \A n \in DOMAIN contacts : contacts[n] \in Contact
    BY <1>2
  <1> QED
    BY <1>1, <1>3 DEF KnownIds, Contact

LEMMA RecordTyped ==
  ASSUME NEW id \in Ids, NEW path \in {0, 1}
  PROVE  [id |-> id, path |-> path] \in Contact /\ [id |-> id, path |-> path].id = id
  BY DEF Contact

(* Where a save may return to. *)
Returns == {"reset", "ready", "loop"}

(* The program will be at place after the save, or is there already. *)
Returning(place) ==
  \/ pc' = "save" /\ after' = place
  \/ pc' = place /\ UNCHANGED after

(* saveContacts begins, or finds that it cannot open the file. *)
LEMMA SaveStarts ==
  ASSUME ContactsOK, pc # "save", NEW table, IsTable(table), NEW return \in Returns,
         SaveContacts(table, return)
  PROVE  /\ ContactsOK' /\ Loaded' /\ KnownIds' = IdsOf(table)
         /\ Returning(return)
  <1>1. contacts' = table /\ kept' = table
    BY DEF SaveContacts
  <1>2. KnownIds' = IdsOf(table)
    BY <1>1 DEF KnownIds, IdsOf
  <1>3. CASE /\ toSave' = table /\ contactsFile' = <<>> /\ contactsSaved' = "part"
             /\ pc' = "save" /\ after' = return
    <2>1. table \in Seq(Contact) /\ Len(table) \in Nat
      BY SeqFacts DEF IsTable
    <2>2. <<>> \in Seq(Contact) /\ Len(<<>>) = 0
      OBVIOUS
    <2>3. Begins(<<>>, table)
      BY <2>1, <2>2 DEF Begins
    <2>4. Saving'
      <3>1. \A n \in 1..Len(table) : table[n] = table[0 + n]
        OBVIOUS
      <3> QED
        BY <1>1, <1>3, <2>1, <2>2, <3>1 DEF Saving
    <2>5. Loaded'
      BY <1>3 DEF Loaded
    <2>6. ContactsOK'
      BY <1>1, <1>3, <2>1, <2>3, <2>4, <2>5, EmptyTable DEF ContactsOK
    <2> QED
      BY <1>2, <1>3, <2>5, <2>6 DEF Returning
  <1>4. CASE /\ contactsSaved' = "old" /\ pc' = return
             /\ UNCHANGED <<toSave, contactsFile, after>>
    <2>1. Loaded' /\ pc' # "save"
      BY <1>4 DEF Loaded, Returns
    <2>2. ContactsOK'
      BY <1>1, <1>4, <2>1 DEF ContactsOK
    <2> QED
      BY <1>2, <1>4, <2>1, <2>2 DEF Returning
  <1> QED
    BY <1>3, <1>4 DEF SaveContacts

(* loadContacts reads the whole file, which always fits, or nothing. *)
LEMMA Loads ==
  ASSUME ContactsOK, Load, UNCHANGED <<contactsFile, toSave>>
  PROVE  ContactsOK' /\ Loaded' /\ pc' \in {"discover", "ready"}
         /\ (pc' = "ready" => ~ap_initialized)
  <1>1. IsTable(contactsFile) /\ contactsFile \in Seq(Contact) /\ toSave \in Seq(Contact)
    BY DEF ContactsOK, IsTable
  <1>2. Len(contactsFile) \in Nat /\ Len(contactsFile) <= MaxContacts
    BY <1>1, SeqFacts DEF IsTable
  <1>3. pc' \in {"discover", "ready"} /\ (pc' = "ready" => ~ap_initialized)
    BY DEF Load
  <1>4. Loaded' /\ pc' # "save" /\ kept' = contacts'
    BY <1>3 DEF Loaded, Load, LoadContacts
  <1>5. CASE contacts' = <<>> /\ contactsSaved' = "old"
    <2>1. IsTable(kept') /\ IsTable(contactsFile')
      BY <1>1, <1>4, <1>5, EmptyTable
    <2> QED
      BY <1>1, <1>3, <1>4, <1>5, <2>1 DEF ContactsOK
  <1>6. CASE /\ contactsSaved' = "whole"
             /\ contacts' = SubSeq(contactsFile, 1,
                  IF Len(contactsFile) < MaxContacts THEN Len(contactsFile) ELSE MaxContacts)
    <2>1. (IF Len(contactsFile) < MaxContacts THEN Len(contactsFile) ELSE MaxContacts)
            = Len(contactsFile)
      BY <1>2, StorageAssumption
    <2>2. contacts' = contactsFile
      BY <1>1, <1>6, <2>1, SubSeqFull
    <2>3. Begins(contactsFile, contactsFile)
      BY <1>2 DEF Begins
    <2> QED
      <3>1. contactsFile' = contactsFile /\ kept' = contactsFile /\ toSave' = toSave
        BY <1>4, <2>2
      <3>2. IsTable(kept') /\ IsTable(contactsFile') /\ Begins(contactsFile', kept')
        BY <1>1, <2>3, <3>1
      <3> QED
        BY <1>1, <1>3, <1>4, <1>6, <2>2, <3>1, <3>2 DEF ContactsOK
  <1>7. ContactsOK'
    BY <1>5, <1>6 DEF Load, LoadContacts
  <1> QED
    BY <1>3, <1>4, <1>7

LEMMA DefaultsTyped ==
  /\ DefaultPrefs \in [1..3 -> {0, 1}] /\ DOMAIN DefaultPrefs = 1..3 /\ Len(DefaultPrefs) = 3
  BY DEF DefaultPrefs

LEMMA OverlaidTyped ==
  ASSUME PrefsOK
  PROVE  Overlaid(prefsFile) \in [1..3 -> {0, 1}]
  <1>1. prefsFile \in [1..Len(prefsFile) -> {0, 1}] /\ Len(prefsFile) \in Nat
    BY SeqFacts DEF PrefsOK
  <1> QED
    BY <1>1, DefaultsTyped DEF Overlaid

LEMMA LoadsPrefs ==
  ASSUME PrefsOK, Load, UNCHANGED prefsFile
  PROVE  PrefsOK'
  <1>1. \/ prefs' = Overlaid(prefsFile) /\ prefsSaved' = "whole"
        \/ prefs' = DefaultPrefs /\ prefsSaved' = "old"
    BY DEF Load, LoadPrefs
  <1>2. prefs' \in [1..3 -> {0, 1}]
    BY <1>1, OverlaidTyped, DefaultsTyped
  <1>3. Overlaid(prefsFile') = Overlaid(prefsFile)
    OBVIOUS
  <1> QED
    BY <1>1, <1>2, <1>3 DEF PrefsOK

----------------------------------------------------------------------------
(* The contacts *)

(* Every action but loading, saving and losing power leaves them alone. *)
ContactsAlone ==
  /\ UNCHANGED <<contacts, kept, contactsFile, toSave>>
  /\ UNCHANGED contactsSaved
  /\ Loaded' = Loaded
  /\ pc' = "save" => pc = "save"

LEMMA ContactsKept ==
  ASSUME ContactsOK, ContactsAlone
  PROVE  ContactsOK'
  <1>1. Saving => Saving'
    BY DEF Saving, ContactsAlone
  <1> QED
    BY <1>1 DEF ContactsOK, ContactsAlone

LEMMA RecordSaved ==
  ASSUME Control, ContactsOK, SaveRecord
  PROVE  ContactsOK'
  <1>0. /\ pc = "save" /\ Saving /\ IsTable(kept) /\ UNCHANGED <<kept, contacts>>
        /\ contacts = kept /\ Begins(contactsFile, kept) /\ contactsSaved = "part"
    BY DEF SaveRecord, ContactsOK, Saving, ram, Loaded
  <1>1. /\ kept \in Seq(Contact) /\ contactsFile \in Seq(Contact) /\ toSave \in Seq(Contact)
        /\ Len(kept) \in Nat /\ Len(contactsFile) \in Nat /\ Len(toSave) \in Nat
    BY SeqFacts DEF ContactsOK, IsTable
  <1>2. ASSUME toSave # <<>>, contactsFile' = Append(contactsFile, Head(toSave)),
               toSave' = Tail(toSave), UNCHANGED <<pc, after, contactsSaved>>
        PROVE  ContactsOK'
    <2>1. /\ Len(toSave) > 0 /\ Head(toSave) = toSave[1] /\ toSave[1] \in Contact
          /\ Tail(toSave) \in Seq(Contact) /\ Len(Tail(toSave)) = Len(toSave) - 1
          /\ \A n \in 1..(Len(toSave) - 1) : Tail(toSave)[n] = toSave[n + 1]
      BY <1>1, <1>2
    <2>2. toSave[1] = kept[Len(contactsFile) + 1]
      BY <1>0, <1>1, <2>1 DEF Saving
    <2>3. /\ contactsFile' \in Seq(Contact) /\ Len(contactsFile') = Len(contactsFile) + 1
          /\ \A n \in 1..Len(contactsFile) : contactsFile'[n] = contactsFile[n]
          /\ contactsFile'[Len(contactsFile) + 1] = toSave[1]
      BY <1>1, <1>2, <2>1, AppendProperties
    <2>4. Begins(contactsFile', kept)
      BY <1>0, <1>1, <2>1, <2>2, <2>3, SMTT(40) DEF Begins, Saving
    <2>5. Len(contactsFile') + Len(toSave') = Len(kept)
      BY <1>0, <1>1, <1>2, <2>1, <2>3 DEF Saving
    <2>6. ASSUME NEW n \in 1..Len(toSave')
          PROVE  toSave'[n] = kept[Len(contactsFile') + n]
      <3>1. n + 1 \in 1..Len(toSave) /\ toSave'[n] = toSave[n + 1]
        BY <1>1, <1>2, <2>1, <2>6
      <3>2. toSave[n + 1] = kept[Len(contactsFile) + (n + 1)]
        BY <1>0, <3>1 DEF Saving
      <3>3. Len(contactsFile) + (n + 1) = Len(contactsFile') + n
        BY <1>1, <1>2, <2>1, <2>3, <2>6
      <3> QED
        BY <3>1, <3>2, <3>3
    <2>7. Saving'
      BY <1>0, <1>2, <2>5, <2>6 DEF Saving
    <2>8. Loaded'
      BY <1>0, <1>2 DEF Loaded
    <2>9. IsTable(contactsFile')
      BY <1>0, <2>3, <2>4, PrefixTable
    <2> QED
      BY <1>0, <1>2, <2>1, <2>4, <2>7, <2>8, <2>9 DEF ContactsOK
  <1>3. after \in {"reset", "ready", "loop"}
    BY <1>0 DEF Control
  <1>4. ASSUME pc' = after, toSave' = <<>>, UNCHANGED <<contactsFile, contactsSaved>>
        PROVE  ContactsOK'
    <2>1. Loaded' /\ pc' # "save"
      BY <1>3, <1>4 DEF Loaded
    <2>2. <<>> \in Seq(Contact)
      OBVIOUS
    <2> QED
      BY <1>0, <1>1, <1>4, <2>1, <2>2 DEF ContactsOK
  <1>5. ASSUME toSave = <<>>, pc' = after, contactsSaved' = "whole",
               UNCHANGED <<contactsFile, toSave>>
        PROVE  ContactsOK'
    <2>1. Loaded' /\ pc' # "save"
      BY <1>3, <1>5 DEF Loaded
    <2>2. Len(contactsFile) = Len(kept)
      BY <1>0, <1>1, <1>5 DEF Saving
    <2>3. contactsFile = kept
      BY <1>0, <1>1, <2>2, PrefixTable
    <2> QED
      BY <1>0, <1>1, <1>5, <2>1, <2>3 DEF ContactsOK
  <1> QED
    BY <1>2, <1>4, <1>5 DEF SaveRecord

(* The changes of the table that are saved. *)
LEMMA TableChanges ==
  ASSUME Control, ContactsOK, StartProxyDiscovery \/ ResetProxyPath \/ MeshLoop \/ HandleCommand
  PROVE  \/ \E table : \E return \in Returns : IsTable(table) /\ SaveContacts(table, return)
         \/ ContactsAlone
  <1>1. IsTable(contacts) /\ KnownIds = IdsOf(contacts)
    BY ContactsAreTable, KnownAreIds
  <1>2. \A id \in Ids : IsTable(WithPath(id, 0)) /\ IsTable(WithPath(id, 1))
    BY <1>1, PathTable
  <1>3. ASSUME NEW id \in Ids \ KnownIds, HasRoom
        PROVE  IsTable(Append(contacts, [id |-> id, path |-> 0]))
    <2> DEFINE c == [id |-> id, path |-> 0]
    <2>1. c \in Contact /\ c.id = id
      BY RecordTyped
    <2> HIDE DEF c
    <2>2. IsTable(Append(contacts, c))
      BY <1>1, <1>3, <2>1, AddedTable DEF HasRoom
    <2> QED
      BY <2>2 DEF c
  <1>4. KnownIds \subseteq Ids
    BY KnownTyped
  <1>5. CASE StartProxyDiscovery
    <2>1. CASE ~ProxyMissing
      BY <1>5, <2>1 DEF StartProxyDiscovery, ContactsAlone, Loaded
    <2>2. CASE ProxyMissing /\ HasRoom
      <3>1. Proxy \in Ids \ KnownIds
        BY <2>2, StorageAssumption DEF ProxyMissing
      <3> QED
        BY <1>3, <1>5, <2>2, <3>1 DEF StartProxyDiscovery, Returns
    <2>3. CASE ProxyMissing /\ ~HasRoom
      BY <1>5, <2>3 DEF StartProxyDiscovery, ContactsAlone, Loaded
    <2> QED
      BY <2>1, <2>2, <2>3
  <1>6. CASE ResetProxyPath
    BY <1>2, <1>6, StorageAssumption DEF ResetProxyPath, Returns
  <1>7. CASE MeshLoop
    BY <1>2, <1>3, <1>4, <1>7, StorageAssumption DEF MeshLoop, Returns
  <1>8. CASE HandleCommand
    <2>1. CASE SaveContacts(WithPath(curr_recipient, 0), "loop") /\ curr_recipient # None
      BY <1>2, <1>4, <2>1 DEF Control, Returns
    <2>2. CASE UNCHANGED <<pc, after, toSave, contacts, contactsFile, kept, contactsSaved>>
      BY <2>2 DEF ContactsAlone, Loaded
    <2> QED
      BY <1>8, <2>1, <2>2 DEF HandleCommand
  <1> QED
    BY <1>5, <1>6, <1>7, <1>8

LEMMA ContactsStep ==
  ASSUME Control, ContactsOK, [Next]_vars
  PROVE  ContactsOK'
  <1>1. CASE PowerDown
    <2>1. /\ UNCHANGED <<contactsFile, kept, contactsSaved>> /\ contacts' = <<>> /\ toSave' = <<>>
          /\ pc' \in {"off", "asleep"}
      BY <1>1 DEF PowerDown, files
    <2>2. ~Loaded' /\ pc' # "save"
      BY <2>1 DEF Loaded
    <2>3. <<>> \in Seq(Contact)
      OBVIOUS
    <2> QED
      BY <2>1, <2>2, <2>3 DEF ContactsOK
  <1>2. CASE Setup
    <2>1. ContactsAlone
      BY <1>2 DEF Setup, ContactsAlone, Loaded, files
    <2> QED
      BY <2>1, ContactsKept
  <1>3. CASE Begin
    <2>1. CASE Load
      BY <1>3, <2>1, Loads DEF Begin, files
    <2>2. CASE pc' = "keygen" /\ UNCHANGED <<contacts, kept, contactsSaved>>
      <3>1. ContactsAlone
        BY <1>3, <2>2 DEF Begin, ContactsAlone, Loaded, files
      <3> QED
        BY <3>1, ContactsKept
    <2> QED
      BY <1>3, <2>1, <2>2 DEF Begin
  <1>4. CASE GenerateKey
    BY <1>4, Loads DEF GenerateKey
  <1>5. CASE StartProxyDiscovery \/ ResetProxyPath \/ MeshLoop \/ HandleCommand
    <2>1. pc # "save"
      BY <1>5 DEF StartProxyDiscovery, ResetProxyPath, MeshLoop, HandleCommand
    <2> QED
      BY <1>5, <2>1, TableChanges, SaveStarts, ContactsKept
  <1>6. CASE SendSelfAdvert
    <2>1. ContactsAlone
      BY <1>6 DEF SendSelfAdvert, ContactsAlone, Loaded, files, ram
    <2> QED
      BY <2>1, ContactsKept
  <1>7. CASE SaveRecord
    BY <1>7, RecordSaved
  <1>8. CASE UNCHANGED vars
    <2>1. ContactsAlone
      BY <1>8 DEF vars, ContactsAlone, Loaded, files, ram
    <2> QED
      BY <2>1, ContactsKept
  <1> QED
    BY <1>1, <1>2, <1>3, <1>4, <1>5, <1>6, <1>7, <1>8 DEF Next

----------------------------------------------------------------------------
(* The preferences *)

LEMMA PrefsKept ==
  ASSUME PrefsOK, UNCHANGED <<prefs, prefsFile, prefsSaved>>, Loaded' => Loaded
  PROVE  PrefsOK'
  BY DEF PrefsOK, Overlaid

LEMMA PrefsAreSaved ==
  ASSUME PrefsOK, NEW p \in [1..3 -> {0, 1}], SavePrefs(p)
  PROVE  PrefsOK'
  <1>1. p \in Seq({0, 1}) /\ Len(p) = 3
    <2>1. p \in Seq({0, 1})
      BY SeqDef
    <2>2. DOMAIN p = 1..Len(p) /\ DOMAIN p = 1..3 /\ Len(p) \in Nat
      BY <2>1, SeqFacts
    <2> QED
      BY <2>1, <2>2
  <1>2. prefs' = p
    BY DEF SavePrefs
  <1>3. CASE prefsSaved' = "old" /\ UNCHANGED prefsFile
    BY <1>2, <1>3 DEF PrefsOK
  <1>4. ASSUME NEW n \in 0..3, prefsFile' = SubSeq(p, 1, n),
               prefsSaved' = IF n = 3 THEN "whole" ELSE "part"
        PROVE  PrefsOK'
    <2>1. /\ prefsFile' \in Seq({0, 1}) /\ Len(prefsFile') = n
          /\ \A i \in 1..n : prefsFile'[i] = p[i]
      BY <1>1, <1>4
    <2>2. n = 3 => Overlaid(prefsFile') = p
      BY <2>1, DefaultsTyped DEF Overlaid
    <2>3. Overlaid(prefsFile)' = Overlaid(prefsFile')
      BY DEF Overlaid
    <2> QED
      BY <1>2, <1>4, <2>1, <2>2, <2>3 DEF PrefsOK
  <1> QED
    BY <1>1, <1>3, <1>4 DEF SavePrefs

LEMMA PrefTyped ==
  ASSUME PrefsOK, NEW octets, NEW v \in {0, 1}
  PROVE  WithPref(octets, v) \in [1..3 -> {0, 1}]
  BY DEF PrefsOK, WithPref

LEMMA PrefsStep ==
  ASSUME Control, ContactsOK, PrefsOK, [Next]_vars
  PROVE  PrefsOK'
  <1>1. CASE PowerDown
    <2>1. prefs' = DefaultPrefs /\ UNCHANGED <<prefsFile, prefsSaved>> /\ ~Loaded'
      BY <1>1 DEF PowerDown, files, Loaded
    <2> QED
      BY <2>1, DefaultsTyped DEF PrefsOK
  <1>2. CASE Load /\ UNCHANGED prefsFile
    BY <1>2, LoadsPrefs
  <1>3. ASSUME NEW octets, NEW v \in {0, 1}, SavePrefs(WithPref(octets, v))
        PROVE  PrefsOK'
    BY <1>3, PrefTyped, PrefsAreSaved
  <1>5. ASSUME UNCHANGED <<prefs, prefsFile, prefsSaved>>, Loaded' => Loaded
        PROVE  PrefsOK'
    BY <1>5, PrefsKept
  <1>6. CASE SaveRecord
    <2>1. UNCHANGED <<prefs, prefsFile, prefsSaved>> /\ Loaded
      BY <1>6 DEF SaveRecord, ram, Loaded
    <2> QED
      BY <1>5, <2>1
  <1>7. CASE Setup
    <2>1. UNCHANGED <<prefs, prefsFile, prefsSaved>> /\ (Loaded' => Loaded)
      BY <1>7 DEF Setup, files, Loaded
    <2> QED
      BY <1>5, <2>1
  <1>8. CASE Begin \/ GenerateKey
    <2>1. CASE ~Load
      <3>1. UNCHANGED <<prefs, prefsFile, prefsSaved>> /\ (Loaded' => Loaded)
        BY <1>8, <2>1 DEF Begin, GenerateKey, files, Loaded
      <3> QED
        BY <1>5, <3>1
    <2>2. UNCHANGED prefsFile
      BY <1>8 DEF Begin, GenerateKey, files
    <2> QED
      BY <1>2, <2>1, <2>2
  <1>9. CASE StartProxyDiscovery \/ ResetProxyPath \/ MeshLoop
    <2>1. Loaded /\ UNCHANGED <<prefs, prefsFile, prefsSaved>>
      BY <1>9 DEF StartProxyDiscovery, ResetProxyPath, MeshLoop, Loaded
    <2> QED
      BY <1>5, <2>1
  <1>10. CASE HandleCommand
    <2>1. Loaded
      BY <1>10 DEF HandleCommand, Loaded
    <2> QED
      BY <1>3, <1>5, <1>10, <2>1 DEF HandleCommand
  <1>11. CASE SendSelfAdvert \/ UNCHANGED vars
    <2>1. UNCHANGED <<prefs, prefsFile, prefsSaved>> /\ (Loaded' => Loaded)
      BY <1>11 DEF SendSelfAdvert, vars, ram, files, Loaded
    <2> QED
      BY <1>5, <2>1
  <1> QED
    BY <1>1, <1>6, <1>7, <1>8, <1>9, <1>10, <1>11 DEF Next

----------------------------------------------------------------------------
(* The identity *)

LEMMA IdentityStep ==
  ASSUME Control, IdentityOK, [Next]_vars
  PROVE  IdentityOK'
  <1>0. None \notin Keys
    BY StorageAssumption
  <1>1. CASE PowerDown
    BY <1>1 DEF PowerDown, IdentityOK, files, Loaded
  <1>2. CASE Setup
    BY <1>2 DEF Setup, IdentityOK, files, Loaded
  <1>3. CASE Begin
    BY <1>3 DEF Begin, Load, IdentityOK, files, Loaded
  <1>4. CASE GenerateKey
    <2>1. PICK key \in Keys : self_id' = key /\ StoreIdentity(key)
      BY <1>4 DEF GenerateKey
    <2>2. identityFile = None /\ UNCHANGED advertised /\ pc' \in {"discover", "ready"}
      BY <1>4 DEF GenerateKey, Load, IdentityOK
    <2>3. CASE identityFile' = key /\ UNCHANGED storeFailed
      BY <1>0, <2>1, <2>2, <2>3 DEF IdentityOK
    <2>4. CASE storeFailed' = TRUE /\ UNCHANGED identityFile
      BY <2>1, <2>2, <2>4 DEF IdentityOK
    <2> QED
      BY <2>1, <2>3, <2>4 DEF StoreIdentity
  <1>5. CASE StartProxyDiscovery
    <2>1. Loaded /\ UNCHANGED <<self_id, identityFile, storeFailed>> /\ pc' # "keygen"
          /\ advertised' \subseteq advertised \cup {self_id}
      BY <1>5 DEF StartProxyDiscovery, SaveContacts, Loaded
    <2> QED
      BY <2>1 DEF IdentityOK
  <1>6. CASE SendSelfAdvert
    <2>1. Loaded /\ UNCHANGED <<self_id, identityFile, storeFailed>> /\ pc' # "keygen"
          /\ advertised' \subseteq advertised \cup {self_id}
      BY <1>6 DEF SendSelfAdvert, Loaded, ram, files
    <2> QED
      BY <2>1 DEF IdentityOK
  <1>7. CASE ResetProxyPath \/ MeshLoop \/ HandleCommand \/ SaveRecord
    <2>1. Loaded /\ UNCHANGED <<self_id, identityFile, storeFailed, advertised>>
      BY <1>7 DEF ResetProxyPath, MeshLoop, HandleCommand, SaveRecord, Loaded, ram
    <2>2. pc' = "keygen" => pc = "save" /\ after = "keygen"
      BY <1>7 DEF ResetProxyPath, MeshLoop, HandleCommand, SaveRecord, SaveContacts
    <2> QED
      BY <2>1, <2>2 DEF IdentityOK, Control
  <1>8. CASE UNCHANGED vars
    BY <1>8 DEF vars, ram, files, IdentityOK, Loaded
  <1> QED
    BY <1>1, <1>2, <1>3, <1>4, <1>5, <1>6, <1>7, <1>8 DEF Next

----------------------------------------------------------------------------
(* The places of the program, and the proxy among the contacts *)

(* A new contact. *)
LEMMA SaveAdded ==
  ASSUME ContactsOK, pc # "save", NEW id \in Ids \ KnownIds, HasRoom, NEW return \in Returns,
         SaveContacts(Append(contacts, [id |-> id, path |-> 0]), return)
  PROVE  KnownIds' = KnownIds \cup {id} /\ Returning(return)
  <1> DEFINE c == [id |-> id, path |-> 0]
             new == Append(contacts, c)
  <1>1. c \in Contact /\ c.id = id
    BY RecordTyped
  <1>2. IsTable(contacts) /\ KnownIds = IdsOf(contacts)
    BY KnownTyped
  <1>3. SaveContacts(new, return)
    OBVIOUS
  <1> HIDE DEF c
  <1>4. IsTable(new) /\ IdsOf(new) = KnownIds \cup {id}
    BY <1>1, <1>2, AddedTable DEF HasRoom
  <1> HIDE DEF new
  <1> QED
    BY <1>3, <1>4, SaveStarts

(* A new path. *)
LEMMA SavePath ==
  ASSUME ContactsOK, pc # "save", NEW id \in Ids, NEW path \in {0, 1}, NEW return \in Returns,
         SaveContacts(WithPath(id, path), return)
  PROVE  KnownIds' = KnownIds /\ Len(contacts') = Len(contacts) /\ Returning(return)
  <1> DEFINE new == WithPath(id, path)
  <1>1. IsTable(new) /\ IdsOf(new) = KnownIds /\ Len(new) = Len(contacts)
    BY KnownTyped, PathTable
  <1>2. SaveContacts(new, return)
    OBVIOUS
  <1> HIDE DEF new
  <1>3. contacts' = new
    BY <1>2 DEF SaveContacts
  <1> QED
    BY <1>1, <1>2, <1>3, SaveStarts

LEMMA RoomLeft ==
  ASSUME ContactsOK
  PROVE  /\ ~HasRoom => Len(contacts) = MaxContacts
         /\ HasRoom => Len(contacts) # MaxContacts
  <1>1. Len(contacts) \in Nat /\ Len(contacts) <= MaxContacts
    BY KnownTyped, SeqFacts DEF IsTable
  <1> QED
    BY <1>1, StorageAssumption DEF HasRoom

(* One case for each action. *)
LEMMA PlacesStep ==
  ASSUME Control, ContactsOK, PrefsOK, ProxyOK, [Next]_vars
  PROVE  Control' /\ ProxyOK'
  <1>0. Proxy \in Ids /\ KnownIds \subseteq Ids
    BY KnownTyped, StorageAssumption
  <1>1. CASE PowerDown
    <2>1. /\ pc' \in {"off", "asleep"} /\ after' = "off" /\ curr_recipient' = None
      BY <1>1 DEF PowerDown
    <2> QED
      BY <2>1 DEF Control, Places, ProxyOK, At
  <1>2. CASE Setup
    <2>1. /\ pc' \in {"setup", "begin", "halted"}
          /\ UNCHANGED <<after, curr_recipient, contacts>>
      BY <1>2 DEF Setup
    <2> QED
      BY <2>1 DEF Control, Places, ProxyOK, At, KnownIds
  <1>3. CASE Begin \/ GenerateKey
    <2>1. UNCHANGED <<after, curr_recipient, ap_initialized>>
      BY <1>3 DEF Begin, GenerateKey, files
    <2>2. curr_recipient = None
      <3>1. pc \in {"begin", "keygen"}
        BY <1>3 DEF Begin, GenerateKey
      <3>2. contacts = <<>>
        BY <3>1 DEF ContactsOK, Loaded
      <3>3. KnownIds = {}
        BY <3>2 DEF KnownIds
      <3> QED
        BY <3>3 DEF Control
    <2>3. CASE Load
      <3>1. pc' \in {"discover", "ready"} /\ (pc' = "ready" => ~ap_initialized)
        BY <2>3 DEF Load
      <3> QED
        BY <2>1, <2>2, <3>1 DEF Control, Places, ProxyOK, At
    <2>4. CASE pc' = "keygen"
      BY <2>1, <2>2, <2>4 DEF Control, Places, ProxyOK, At
    <2> QED
      BY <1>3, <2>3, <2>4 DEF Begin, GenerateKey
  <1>4. CASE StartProxyDiscovery
    <2>0. pc = "discover" /\ UNCHANGED <<curr_recipient, ap_initialized>>
      BY <1>4 DEF StartProxyDiscovery
    <2>1. CASE ~ProxyMissing
      <3>1. pc' = "reset" /\ UNCHANGED <<after, contacts>> /\ Proxy \in KnownIds
        BY <1>4, <2>1 DEF StartProxyDiscovery, ProxyMissing
      <3> QED
        BY <2>0, <3>1 DEF Control, Places, ProxyOK, At, KnownIds
    <2>2. CASE ProxyMissing /\ HasRoom
      <3>1. Proxy \in Ids \ KnownIds
        BY <1>0, <2>2 DEF ProxyMissing
      <3>2. SaveContacts(Append(contacts, [id |-> Proxy, path |-> 0]), "reset")
        BY <1>4, <2>2 DEF StartProxyDiscovery
      <3>3. KnownIds' = KnownIds \cup {Proxy} /\ Returning("reset")
        BY <2>0, <2>2, <3>1, <3>2, SaveAdded DEF Returns
      <3> QED
        BY <2>0, <3>3 DEF Control, Places, ProxyOK, At, Returning
    <2>3. CASE ProxyMissing /\ ~HasRoom
      <3>1. pc' = "ready" /\ UNCHANGED <<after, contacts>>
        BY <1>4, <2>3 DEF StartProxyDiscovery
      <3>2. Len(contacts) = MaxContacts
        BY <2>3, RoomLeft
      <3> QED
        BY <2>0, <3>1, <3>2 DEF Control, Places, ProxyOK, At, KnownIds
    <2> QED
      BY <2>1, <2>2, <2>3
  <1>5. CASE ResetProxyPath
    <2>1. /\ pc = "reset" /\ SaveContacts(WithPath(Proxy, 0), "ready")
          /\ UNCHANGED <<curr_recipient, ap_initialized>>
      BY <1>5 DEF ResetProxyPath
    <2>2. KnownIds' = KnownIds /\ Returning("ready")
      BY <1>0, <2>1, SavePath DEF Returns
    <2> QED
      BY <2>1, <2>2 DEF Control, Places, ProxyOK, At, Returning
  <1>6. CASE SendSelfAdvert
    <2>1. pc = "ready" /\ pc' = "loop"
          /\ UNCHANGED <<after, contacts, curr_recipient, ap_initialized>>
      BY <1>6 DEF SendSelfAdvert, ram
    <2> QED
      BY <2>1 DEF Control, Places, ProxyOK, At, KnownIds
  <1>7. ASSUME NEW id \in Ids, NEW path \in {0, 1}, pc = "loop",
               SaveContacts(WithPath(id, path), "loop"),
               UNCHANGED <<curr_recipient, ap_initialized>>
        PROVE  Control' /\ ProxyOK'
    <2>1. KnownIds' = KnownIds /\ Len(contacts') = Len(contacts) /\ Returning("loop")
      BY <1>7, SavePath DEF Returns
    <2> QED
      BY <1>7, <2>1 DEF Control, Places, ProxyOK, At, Returning
  <1>8. CASE MeshLoop
    <2>0. pc = "loop" /\ UNCHANGED <<curr_recipient, ap_initialized>>
      BY <1>8 DEF MeshLoop
    <2>1. ASSUME NEW id \in Ids \ KnownIds, HasRoom,
                 SaveContacts(Append(contacts, [id |-> id, path |-> 0]), "loop")
          PROVE  Control' /\ ProxyOK'
      <3>1. KnownIds' = KnownIds \cup {id} /\ Returning("loop")
        BY <2>0, <2>1, SaveAdded DEF Returns
      <3>2. ap_initialized => Proxy \in KnownIds
        BY <2>0, <2>1, RoomLeft DEF ProxyOK, At
      <3> QED
        BY <2>0, <3>1, <3>2 DEF Control, Places, ProxyOK, At, Returning
    <2> QED
      BY <1>0, <1>7, <1>8, <2>0, <2>1 DEF MeshLoop
  <1>9. CASE HandleCommand
    <2>0. pc = "loop" /\ UNCHANGED ap_initialized
      BY <1>9 DEF HandleCommand
    <2>1. CASE /\ curr_recipient' \in KnownIds \cup {None}
               /\ UNCHANGED <<pc, after, contacts>>
      BY <2>0, <2>1 DEF Control, ProxyOK, At, KnownIds
    <2>2. CASE /\ curr_recipient # None /\ UNCHANGED curr_recipient
               /\ SaveContacts(WithPath(curr_recipient, 0), "loop")
      <3>1. curr_recipient \in Ids
        BY <1>0, <2>2 DEF Control
      <3> QED
        BY <1>7, <2>0, <2>2, <3>1
    <2> QED
      BY <1>9, <2>1, <2>2 DEF HandleCommand, Control
  <1>10. CASE SaveRecord
    <2>1. pc = "save" /\ UNCHANGED <<contacts, curr_recipient, ap_initialized>>
      BY <1>10 DEF SaveRecord, ram
    <2>2. \/ UNCHANGED <<pc, after>>
          \/ pc' = after /\ after' = "off"
      BY <1>10 DEF SaveRecord
    <2> QED
      BY <2>1, <2>2 DEF Control, Places, ProxyOK, At, KnownIds
  <1>11. CASE UNCHANGED vars
    BY <1>11 DEF vars, ram, Control, ProxyOK, At, KnownIds
  <1> QED
    BY <1>1, <1>2, <1>3, <1>4, <1>5, <1>6, <1>8, <1>9, <1>10, <1>11 DEF Next

----------------------------------------------------------------------------
(* The invariant, and what follows from it *)

LEMMA IndInvInit == Init => IndInv
  <1> SUFFICES ASSUME Init PROVE IndInv
    OBVIOUS
  <1>1. Control
    BY DEF Init, Control, Places
  <1>2. ContactsOK
    <2>1. IsTable(contactsFile) /\ kept = contactsFile
      BY EarlierAssumption DEF Init, IsTable, OnceEach
    <2>2. contactsFile \in Seq(Contact) /\ Len(contactsFile) \in Nat /\ <<>> \in Seq(Contact)
      BY <2>1, SeqFacts DEF IsTable
    <2>3. Begins(contactsFile, contactsFile)
      BY <2>2 DEF Begins
    <2> QED
      BY <2>1, <2>2, <2>3 DEF Init, ContactsOK, Loaded
  <1>3. PrefsOK
    <2>1. <<>> \in Seq({0, 1}) /\ Len(<<>>) = 0
      OBVIOUS
    <2> QED
      BY <2>1, DefaultsTyped DEF Init, PrefsOK, Loaded
  <1>4. IdentityOK /\ ProxyOK
    BY DEF Init, IdentityOK, ProxyOK, At, Loaded
  <1> QED
    BY <1>1, <1>2, <1>3, <1>4 DEF IndInv

LEMMA IndInvStep == IndInv /\ [Next]_vars => IndInv'
  BY ContactsStep, PrefsStep, IdentityStep, PlacesStep DEF IndInv

(* Every state that restarts, failed writes and losses of power lead to    *)
(* satisfies the invariant.                                                *)
THEOREM Invariance == Spec => []IndInv
  BY IndInvInit, IndInvStep, PTL DEF Spec

(* Memory and files keep their types, and a save returns to a place of     *)
(* setup or loop.                                                          *)
THEOREM TypeCorrect == Spec => []TypeOK
  <1>1. ASSUME IndInv PROVE TypeOK
    <2>1. IsTable(contacts)
      BY <1>1, KnownTyped DEF IndInv
    <2> QED
      BY <1>1, <2>1 DEF IndInv, TypeOK, Control, ContactsOK, PrefsOK, IdentityOK, IsTable
  <1>2. IndInv => TypeOK
    BY <1>1
  <1> QED
    BY <1>2, Invariance, PTL

(* Contacts and preferences on flash are those last in memory; a beginning *)
(* of them, which may end inside a preference, when a save was cut short;  *)
(* earlier ones when a file could not be opened.                           *)
THEOREM FlashTrusted == Spec => []FilesSurvive
  <1>1. ASSUME IndInv PROVE ContactsSurvive
    <2>1. /\ IsTable(kept) /\ IsTable(contactsFile) /\ contactsFile \in Seq(Contact)
          /\ contactsSaved = "part" => Begins(contactsFile, kept)
          /\ contactsSaved = "whole" => contactsFile = kept
          /\ pc = "loop" => contacts = kept
      BY <1>1 DEF IndInv, ContactsOK, Loaded, IsTable
    <2>2. contactsSaved = "part" => IsPrefix(contactsFile, kept)
      BY <2>1, PrefixTable
    <2> QED
      BY <2>1, <2>2 DEF ContactsSurvive, IsTable, OnceEach
  <1>2. ASSUME IndInv PROVE PrefsSurvive
    <2> SUFFICES ASSUME pc = "loop", prefsSaved = "part"
                 PROVE  \E last \in 0..Len(DefaultPrefs) :
                          \A n \in DOMAIN prefs :
                            Overlaid(prefsFile)[n] = IF n <= last THEN prefs[n] ELSE DefaultPrefs[n]
      BY <1>2 DEF PrefsSurvive, IndInv, PrefsOK, Loaded
    <2>1. /\ prefs \in [1..3 -> {0, 1}] /\ prefsFile \in Seq({0, 1}) /\ Len(prefsFile) <= 3
          /\ \A n \in 1..Len(prefsFile) : prefsFile[n] = prefs[n]
      BY <1>2 DEF IndInv, PrefsOK, Loaded
    <2>2. Len(prefsFile) \in 0..Len(DefaultPrefs)
      <3>1. Len(prefsFile) \in Nat
        BY <2>1, SeqFacts
      <3>2. Len(prefsFile) \in 0..3
        <4> DEFINE len == Len(prefsFile)
        <4>1. len \in Nat /\ len <= 3
          BY <2>1, <3>1
        <4> HIDE DEF len
        <4>2. len \in 0..3
          BY <4>1
        <4> QED
          BY <4>2 DEF len
      <3>3. 0..Len(DefaultPrefs) = 0..3
        BY DefaultsTyped, Zenon
      <3> QED
        BY <3>2, <3>3, Zenon
    <2>3. ASSUME NEW n \in DOMAIN prefs
          PROVE  Overlaid(prefsFile)[n] =
                   IF n <= Len(prefsFile) THEN prefs[n] ELSE DefaultPrefs[n]
      BY <2>1, <2>2, DefaultsTyped DEF Overlaid
    <2> QED
      BY <2>2, <2>3
  <1>3. IndInv => FilesSurvive
    BY <1>1, <1>2 DEF FilesSurvive
  <1> QED
    BY <1>3, Invariance, PTL

(* In its loop the access point has its proxy among the contacts, unless   *)
(* the table has no room for it.                                           *)
THEOREM ProxyIsKnown == Spec => []ProxyKnown
  <1>1. IndInv => ProxyKnown
    BY DEF IndInv, ProxyOK, At, ProxyKnown
  <1> QED
    BY <1>1, Invariance, PTL

(* A node never advertises two identities, whenever power is lost between  *)
(* generating, storing and advertising one, unless storing it failed.      *)
THEOREM IdentityUnique == Spec => []OneIdentity
  <1>1. IndInv => OneIdentity
    BY DEF IndInv, IdentityOK, OneIdentity
  <1> QED
    BY <1>1, Invariance, PTL

============================================================================
