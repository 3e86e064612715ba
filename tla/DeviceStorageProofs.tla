------------------------ MODULE DeviceStorageProofs ------------------------
(***************************************************************************)
(* Proofs about DeviceStorage, for all sets of credentials, texts, files,  *)
(* contents and images, for every signer, and for any number of commands,  *)
(* of failing calls and of resets.                                         *)
(***************************************************************************)
EXTENDS DeviceStorage, TLAPS

-----------------------------------------------------------------------------
(* The inductive invariant                                                 *)

\* What a call can be about, and what the device can have promised.
Values == {Nil} \cup Creds \cup ({"str", "blob"} \X Texts) \cup Contents \cup Paths \cup Images
Ops == {"set", "erase", "commit", "open", "write", "close", "rename", "remove", "ota-begin",
        "ota-write", "ota-end", "ota-select"}
SomeCall == [op : Ops, on : Keys \cup Paths \cup {"none"}, value : Values]
Promises == {Unknown, Nil} \cup (Creds \X Creds) \cup ({"str", "blob"} \X Texts)
            \cup Contents \cup Images

\* The credentials wifi-config accepts.
Fitting == Creds \ (LongSsids \cup LongPasswords)

\* The calls still to make are the end of `list`.
Left == Len(calls)
Rest(list) ==
    /\ Left <= Len(list)
    /\ \A i \in 1..Left : calls[i] = list[Len(list) - Left + i]

CommandNames == {"none", "wifi-config", "wifi-profile-clear", "config-set", "config-clear",
                 "fs-write", "fs-remove", "ota"}

Shape ==
    /\ TypeOK
    /\ told \in [Items -> Promises]
    /\ calls \in Seq(SomeCall)
    /\ command.name \in CommandNames
    /\ command.name = "none" => command = Idle /\ calls = << >> /\ ok
    /\ ~up => command.name = "none"
    /\ command.name \notin {"fs-write", "fs-remove"} => command.was = Unknown

\* What a command in progress has done so far, by how much of it is left.  What it
\* will change is not promised any more.
Setting ==
    command.name = "config-set" =>
        /\ command.item \in SetKeys /\ command.value \in {"str", "blob"} \X Texts
        /\ told[command.item] = Unknown
        /\ Rest(<<SetKey(command.item, command.value), Commit>>)
        /\ ok /\ Left <= 1 => nvs[command.item] = command.value
        /\ ok /\ Left = 0 => flash[command.item] = command.value

Clearing ==
    command.name = "config-clear" =>
        /\ command.item = "ota_public_key" /\ command.value = Nil
        /\ told["ota_public_key"] = Unknown
        /\ Rest(ConfigClearCalls)
        /\ ok /\ Left <= 1 => nvs["ota_public_key"] = Nil
        /\ ok /\ Left = 0 => flash["ota_public_key"] = Nil

\* A command that was refused, or gave up, makes no call any more.
Configuring ==
    command.name = "wifi-config" => \/ calls = << >> /\ ~ok
      \/ \E s \in Slots, c \in Fitting :
            LET total == Len(WifiConfigCalls(s, c)) IN
            /\ command.item = Item[s] /\ command.value = <<c, c>>
            /\ told[Item[s]] = Unknown
            /\ Rest(WifiConfigCalls(s, c))
            /\ ok /\ Left < total => nvs[SsidKey[s]] = c
            /\ ok /\ Left < total - 1 => nvs[PasswordKey[s]] = c
            /\ ok /\ Left = 0 => flash[SsidKey[s]] = c /\ flash[PasswordKey[s]] = c

Refusing ==
    command.name = "wifi-profile-clear" => calls = << >> /\ ~ok

\* After a write that failed the temporary file is closed and removed.
Writing ==
    command.name = "fs-write" =>
        LET f == command.item IN
        /\ f \in Files /\ command.value \in Contents
        /\ told[f] = Unknown /\ told[Temp[f]] = Unknown /\ command.was \in Promises
        /\ ok => Rest(FsWriteCalls(f, command.value))
        /\ ~ok => Rest(<<Close(Temp[f], Nil), Remove(Temp[f])>>)
        /\ ~ignored =>
            /\ command.was # Unknown /\ (ok => Left # 0) => disk[f] = command.was
            /\ ok /\ Left = 1 => disk[Temp[f]] = command.value
            /\ ok /\ Left = 0 => disk[f] = command.value

Removing ==
    command.name = "fs-remove" =>
        LET f == command.item IN
        /\ f \in Files /\ command.value = Nil
        /\ told[f] = Unknown /\ command.was \in Promises
        /\ Rest(<<Remove(f)>>) /\ (~ok => Left = 0)
        /\ ~ignored =>
            /\ command.was # Unknown /\ (ok => Left # 0) => disk[f] = command.was
            /\ ok /\ Left = 0 => disk[f] = Nil

Updating ==
    command.name = "ota" =>
        /\ command.item = "ota"
        /\ ~ok => Left = 0
        /\ ok =>
            /\ command.value \in Images \cap approved
            /\ told["ota"] = Unknown
            /\ Rest(OtaCalls(command.value))
            /\ Left <= 2 => slots[Target] = command.value
            /\ Left <= 1 => Whole(command.value)
            /\ Left = 0 => boot = Target

InProgress ==
    Setting /\ Clearing /\ Configuring /\ Refusing /\ Writing /\ Removing /\ Updating

\* A profile that is promised is in its own keys, in RAM and on the medium.
ProfilesKept ==
    \A s \in Slots : told[Item[s]] # Unknown =>
        \E c \in Fitting :
            /\ told[Item[s]] = <<c, c>>
            /\ nvs[SsidKey[s]] = c /\ flash[SsidKey[s]] = c
            /\ nvs[PasswordKey[s]] = c /\ flash[PasswordKey[s]] = c

\* A slot holds an approved image or none; the one that runs is whole.
SlotsKept ==
    /\ \A s \in Slots : slots[s] \in approved \cup {Empty}
    /\ Whole(slots[running])

Promised == ConfigKept /\ ProfilesKept /\ UploadKept /\ UploadWhole /\ UpdateKept /\ SlotsKept

IInv == Shape /\ InProgress /\ Promised

-----------------------------------------------------------------------------
(* Lists of calls                                                          *)

\* The next call is the one of the list that is as far from its end.
LEMMA RestHead ==
    ASSUME NEW S, NEW list, calls \in Seq(S), calls # << >>, Len(list) \in Nat, Rest(list)
    PROVE  Left \in 1..Len(list) /\ This = list[Len(list) - Left + 1]
<1>1. Left \in Nat /\ Left # 0 BY DEF Left
<1>2. This = calls[1] BY DEF This
<1> QED BY <1>1, <1>2 DEF Rest

\* A call made leaves one less.
LEMMA CallMade ==
    ASSUME NEW S, calls \in Seq(S), calls # << >>, calls' = Tail(calls)
    PROVE  /\ calls' \in Seq(S) /\ Left \in Nat \ {0} /\ Left' = Left - 1 /\ Left' \in Nat
           /\ \A i \in 1..Left' : calls'[i] = calls[i + 1]
<1>1. Left \in Nat \ {0} /\ Left' = Left - 1 /\ Left' \in Nat BY DEF Left
<1>2. \A i \in 1..Left' : calls'[i] = calls[i + 1] BY <1>1 DEF Left
<1>3. calls' \in Seq(S) OBVIOUS
<1> QED BY <1>1, <1>2, <1>3

\* What it leaves is still the end of the same list.
LEMMA RestTail ==
    ASSUME NEW S, NEW list, calls \in Seq(S), calls # << >>, calls' = Tail(calls),
           Rest(list), Len(list) \in Nat
    PROVE  /\ Left' <= Len(list)
           /\ \A i \in 1..Left' : calls'[i] = list[Len(list) - Left' + i]
<1>1. /\ Left \in Nat \ {0} /\ Left' = Left - 1 /\ Left' \in Nat
      /\ \A i \in 1..Left' : calls'[i] = calls[i + 1]
      BY CallMade
<1>2. Left' <= Len(list) BY <1>1 DEF Rest
<1>3. ASSUME NEW i \in 1..Left' PROVE calls'[i] = list[Len(list) - Left' + i]
  <2>1. i + 1 \in 1..Left BY <1>1
  <2>2. calls[i + 1] = list[Len(list) - Left + (i + 1)] BY <2>1 DEF Rest
  <2>3. Len(list) - Left + (i + 1) = Len(list) - Left' + i BY <1>1
  <2> QED BY <1>1, <2>2, <2>3
<1> QED BY <1>2, <1>3

LEMMA WifiList ==
    ASSUME NEW s \in Slots, NEW c, NEW list, list = WifiConfigCalls(s, c)
    PROVE  /\ Len(list) = (IF s = 0 THEN 5 ELSE 3)
           /\ list[1] = SetKey(SsidKey[s], c) /\ list[2] = SetKey(PasswordKey[s], c)
           /\ s = 0 => list[3] = SetKey("wifi_ssid", c) /\ list[4] = SetKey("wifi_password", c)
           /\ list[Len(list)] = Commit
<1>1. CASE s = 0 BY <1>1 DEF WifiConfigCalls
<1>2. CASE s = 1 BY <1>2 DEF WifiConfigCalls
<1> QED BY <1>1, <1>2 DEF Slots

-----------------------------------------------------------------------------
(* Stores                                                                  *)

LEMMA StoreEdit ==
    ASSUME NEW m \in Stores, NEW k \in Keys, NEW v \in KeyValue(k)
    PROVE  [m EXCEPT ![k] = v] \in Stores
BY DEF Stores, KeyValue

LEMMA StoreMix ==
    ASSUME NEW m \in Stores, NEW f \in Stores, NEW lost \in SUBSET Keys
    PROVE  [k \in Keys |-> IF k \in lost THEN f[k] ELSE m[k]] \in Stores
BY DEF Stores

\* What the loaders find has the right type.
LEMMA Loaded ==
    ASSUME NEW m \in Stores
    PROVE  /\ \A s \in Slots : LoadProfile(m, s) \in {Nil} \cup (Creds \X Creds)
           /\ LoadAuth(m) \in {Nil} \cup (Texts \X Texts \X Texts)
<1>1. \A k \in WifiKeys : m[k] \in {Nil} \cup Creds
      BY DEF Stores, KeyValue, Keys
<1>2. \A k \in {"ssh_username", "ssh_pw_hash", "ssh_host_key"} :
          m[k] # Nil => m[k] \in {"str", "blob"} \X Texts
      BY DEF Stores, KeyValue, Keys, SetKeys, WifiKeys
<1>3. \A s \in Slots : SsidKey[s] \in WifiKeys /\ PasswordKey[s] \in WifiKeys
      BY DEF Slots, SsidKey, PasswordKey, WifiKeys
<1>4. "wifi_ssid" \in WifiKeys /\ "wifi_password" \in WifiKeys BY DEF WifiKeys
<1>5. \A s \in Slots : LoadProfile(m, s) \in {Nil} \cup (Creds \X Creds)
      BY <1>1, <1>3, <1>4 DEF LoadProfile, Fits
<1>6. LoadAuth(m) \in {Nil} \cup (Texts \X Texts \X Texts)
      BY <1>2 DEF LoadAuth, IsStr, IsBlob
<1> QED BY <1>5, <1>6

-----------------------------------------------------------------------------
(* The call a command makes next                                           *)

LEMMA NextSetting ==
    ASSUME Shape, InProgress, calls # << >>, command.name = "config-set"
    PROVE  /\ command.item \in SetKeys /\ command.value \in {"str", "blob"} \X Texts
           /\ \/ Left = 2 /\ This = SetKey(command.item, command.value)
              \/ Left = 1 /\ This = Commit
<1> DEFINE list == <<SetKey(command.item, command.value), Commit>>
<1>1. Rest(list) /\ calls \in Seq(SomeCall) BY DEF InProgress, Setting, Shape
<1>2. /\ Len(list) = 2 /\ Len(list) \in Nat
      /\ list[1] = SetKey(command.item, command.value) /\ list[2] = Commit
      OBVIOUS
<1> HIDE DEF list
<1>3. Left \in 1..2 /\ This = list[2 - Left + 1] BY <1>1, <1>2, RestHead
<1> QED BY <1>2, <1>3 DEF InProgress, Setting

LEMMA NextClearing ==
    ASSUME Shape, InProgress, calls # << >>, command.name = "config-clear"
    PROVE  \/ Left = 3 /\ This = Erase("app_public_key")
           \/ Left = 2 /\ This = Erase("ota_public_key")
           \/ Left = 1 /\ This = Commit
<1> DEFINE list == ConfigClearCalls
<1>1. Rest(list) /\ calls \in Seq(SomeCall) BY DEF InProgress, Clearing, Shape
<1>2. /\ Len(list) = 3 /\ Len(list) \in Nat /\ list[1] = Erase("app_public_key")
      /\ list[2] = Erase("ota_public_key") /\ list[3] = Commit
      BY DEF ConfigClearCalls
<1> HIDE DEF list
<1>3. Left \in 1..3 /\ This = list[3 - Left + 1] BY <1>1, <1>2, RestHead
<1> QED BY <1>2, <1>3

LEMMA NextConfiguring ==
    ASSUME Shape, calls # << >>, NEW s \in Slots, NEW c \in Fitting, Rest(WifiConfigCalls(s, c))
    PROVE  LET total == Len(WifiConfigCalls(s, c)) IN
           /\ total \in {3, 5} /\ Left \in 1..total
           /\ \/ Left = total /\ This = SetKey(SsidKey[s], c)
              \/ Left = total - 1 /\ This = SetKey(PasswordKey[s], c)
              \/ /\ Left \in 2..(total - 2) /\ s = 0
                 /\ \E k \in {"wifi_ssid", "wifi_password"} : This = SetKey(k, c)
              \/ Left = 1 /\ This = Commit
<1> DEFINE list == WifiConfigCalls(s, c)
<1>1. Rest(list) /\ calls \in Seq(SomeCall) BY DEF Shape
<1>2. /\ Len(list) = (IF s = 0 THEN 5 ELSE 3) /\ Len(list) \in Nat
      /\ list[1] = SetKey(SsidKey[s], c) /\ list[2] = SetKey(PasswordKey[s], c)
      /\ s = 0 => list[3] = SetKey("wifi_ssid", c) /\ list[4] = SetKey("wifi_password", c)
      /\ list[Len(list)] = Commit
      BY WifiList
<1> HIDE DEF list
<1>3. Left \in 1..Len(list) /\ This = list[Len(list) - Left + 1] BY <1>1, <1>2, RestHead
<1>4. CASE s = 0
  <2>1. Left \in {1, 2, 3, 4, 5} BY <1>2, <1>3, <1>4
  <2> QED BY <1>2, <1>3, <1>4, <2>1 DEF list
<1>5. CASE s # 0
  <2>1. Left \in {1, 2, 3} BY <1>2, <1>3, <1>5
  <2> QED BY <1>2, <1>3, <1>5, <2>1 DEF list
<1> QED BY <1>4, <1>5

LEMMA NextWriting ==
    ASSUME Shape, InProgress, calls # << >>, command.name = "fs-write",
           NEW f, f = command.item
    PROVE  /\ f \in Files /\ command.value \in Contents
           /\ ok => \/ Left = 4 /\ This = Open(Temp[f])
                    \/ Left = 3 /\ This = Write(Temp[f], command.value)
                    \/ Left = 2 /\ This = Close(Temp[f], command.value)
                    \/ Left = 1 /\ This = Rename(Temp[f], f)
           /\ ~ok => \/ Left = 2 /\ This = Close(Temp[f], Nil)
                     \/ Left = 1 /\ This = Remove(Temp[f])
<1>1. CASE ok
  <2> DEFINE list == FsWriteCalls(f, command.value)
  <2>1. Rest(list) /\ calls \in Seq(SomeCall) BY <1>1 DEF InProgress, Writing, Shape
  <2>2. /\ Len(list) = 4 /\ Len(list) \in Nat
        /\ list[1] = Open(Temp[f]) /\ list[2] = Write(Temp[f], command.value)
        /\ list[3] = Close(Temp[f], command.value) /\ list[4] = Rename(Temp[f], f)
        BY DEF FsWriteCalls
  <2> HIDE DEF list
  <2>3. Left \in 1..4 /\ This = list[4 - Left + 1] BY <2>1, <2>2, RestHead
  <2> QED BY <1>1, <2>2, <2>3 DEF InProgress, Writing
<1>2. CASE ~ok
  <2> DEFINE list == <<Close(Temp[f], Nil), Remove(Temp[f])>>
  <2>1. Rest(list) /\ calls \in Seq(SomeCall) BY <1>2 DEF InProgress, Writing, Shape
  <2>2. /\ Len(list) = 2 /\ Len(list) \in Nat
        /\ list[1] = Close(Temp[f], Nil) /\ list[2] = Remove(Temp[f])
        OBVIOUS
  <2> HIDE DEF list
  <2>3. Left \in 1..2 /\ This = list[2 - Left + 1] BY <2>1, <2>2, RestHead
  <2> QED BY <1>2, <2>2, <2>3 DEF InProgress, Writing
<1> QED BY <1>1, <1>2

LEMMA NextRemoving ==
    ASSUME Shape, InProgress, calls # << >>, command.name = "fs-remove"
    PROVE  command.item \in Files /\ Left = 1 /\ ok /\ This = Remove(command.item)
<1> DEFINE list == <<Remove(command.item)>>
<1>1. Rest(list) /\ calls \in Seq(SomeCall) BY DEF InProgress, Removing, Shape
<1>2. Len(list) = 1 /\ Len(list) \in Nat /\ list[1] = Remove(command.item) OBVIOUS
<1> HIDE DEF list
<1>3. Left \in 1..1 /\ This = list[1 - Left + 1] BY <1>1, <1>2, RestHead
<1> QED BY <1>2, <1>3 DEF InProgress, Removing

LEMMA NextUpdating ==
    ASSUME Shape, InProgress, calls # << >>, command.name = "ota"
    PROVE  /\ ok /\ command.value \in Images \cap approved
           /\ \/ Left = 4 /\ This = OtaBegin
              \/ Left = 3 /\ This = OtaWrite(command.value)
              \/ Left = 2 /\ This = OtaEnd
              \/ Left = 1 /\ This = OtaSelect
<1> DEFINE list == OtaCalls(command.value)
<1>1. calls \in Seq(SomeCall) /\ Left # 0 BY DEF Shape, Left
<1>2. ok /\ command.value \in Images \cap approved /\ Rest(list)
      BY <1>1 DEF InProgress, Updating
<1>3. /\ Len(list) = 4 /\ Len(list) \in Nat
      /\ list[1] = OtaBegin /\ list[2] = OtaWrite(command.value)
      /\ list[3] = OtaEnd /\ list[4] = OtaSelect
      BY DEF OtaCalls
<1> HIDE DEF list
<1>4. Left \in 1..4 /\ This = list[4 - Left + 1] BY <1>1, <1>2, <1>3, RestHead
<1> QED BY <1>2, <1>3, <1>4

LEMMA NextNames ==
    ASSUME Shape, InProgress, calls # << >>
    PROVE  command.name \in {"wifi-config", "config-set", "config-clear", "fs-write",
                             "fs-remove", "ota"}
BY DEF Shape, InProgress, Refusing, CommandNames
-----------------------------------------------------------------------------
(* Frames                                                                  *)

LEMMA StoreFrame ==
    ASSUME ConfigKept, ProfilesKept, UNCHANGED <<nvs, flash, told>>
    PROVE  ConfigKept' /\ ProfilesKept'
BY DEF ConfigKept, ProfilesKept

LEMMA FilesFrame ==
    ASSUME UploadKept, UploadWhole, UNCHANGED <<disk, told, ignored>>
    PROVE  UploadKept' /\ UploadWhole'
BY DEF UploadKept, UploadWhole

LEMMA SlotsFrame ==
    ASSUME UpdateKept, SlotsKept, UNCHANGED <<slots, boot, running, approved, told>>
    PROVE  UpdateKept' /\ SlotsKept'
BY DEF UpdateKept, SlotsKept, Chosen

\* A device that does nothing has no command in progress.
LEMMA NothingInProgress ==
    ASSUME command'.name = "none" PROVE InProgress'
BY DEF InProgress, Setting, Clearing, Configuring, Refusing, Writing, Removing, Updating

LEMMA ItemFacts ==
    /\ \A s \in Slots : /\ Item[s] \in Items /\ Item[s] \notin SetKeys \cup Paths \cup {"ota"}
                        /\ \A t \in Slots : Item[s] = Item[t] => s = t
    /\ SetKeys \subseteq Items /\ SetKeys \subseteq Keys /\ Paths \subseteq Items
    /\ "ota" \in Items \ (SetKeys \cup Paths)
    /\ SetKeys \cap Paths = {} /\ SetKeys \cap WifiKeys = {} /\ WifiKeys \subseteq Keys
    /\ Files \subseteq Paths /\ \A f \in Files : Temp[f] \in Paths /\ Temp[f] # f
    /\ \A s \in Slots : SsidKey[s] \in WifiKeys /\ PasswordKey[s] \in WifiKeys
<1>1. \A s \in Slots : Item[s] \in Items /\ \A t \in Slots : Item[s] = Item[t] => s = t
  <2>1. Item[0] = "profile-0" /\ Item[1] = "profile-1" BY DEF Item, Slots
  <2>2. \A s \in Slots : s = 0 \/ s = 1 BY DEF Slots
  <2>3. \A s \in Slots : Item[s] \in Items BY DEF Items
  <2> QED BY <2>1, <2>2, <2>3
<1>2. \A s \in Slots : Item[s] \notin SetKeys /\ Item[s] # "ota"
      BY DEF Item, Slots, SetKeys
<1>3. \A s \in Slots : Item[s] \notin Paths
      BY StorageAssumption
<1>4. SetKeys \subseteq Items /\ Paths \subseteq Items /\ "ota" \in Items
      BY DEF Items
<1>5. "ota" \notin SetKeys BY DEF SetKeys
<1>6. "ota" \notin Paths /\ SetKeys \cap Paths = {} BY StorageAssumption
<1>7. SetKeys \subseteq Keys /\ WifiKeys \subseteq Keys BY DEF Keys
<1>8. SetKeys \cap WifiKeys = {} BY DEF SetKeys, WifiKeys
<1>9. Files \subseteq Paths /\ \A f \in Files : Temp[f] \in Paths BY DEF Paths
<1>10. \A f \in Files : Temp[f] # f BY StorageAssumption
<1>11. \A s \in Slots : SsidKey[s] \in WifiKeys /\ PasswordKey[s] \in WifiKeys
      BY DEF Slots, SsidKey, PasswordKey, WifiKeys
<1> QED BY <1>1, <1>2, <1>3, <1>4, <1>5, <1>6, <1>7, <1>8, <1>9, <1>10, <1>11

\* The bootloader starts an approved image, and the promised one.
LEMMA BootFinds ==
    ASSUME Shape, SlotsKept
    PROVE  Chosen \in Slots /\ Whole(slots[Chosen]) /\ slots[Chosen] \in approved
<1>1. boot \in Slots /\ running \in Slots BY DEF Shape, TypeOK
<1>2. CASE Whole(slots[boot])
      BY <1>1, <1>2 DEF Chosen, SlotsKept, Whole
<1>3. CASE ~Whole(slots[boot])
  <2>1. Chosen = running BY <1>1, <1>3 DEF Chosen, SlotsKept, Slots, Other
  <2> QED BY <1>1, <2>1 DEF SlotsKept, Whole
<1> QED BY <1>2, <1>3

-----------------------------------------------------------------------------
(* Initial state, boot and reset                                           *)

LEMMA IInvInit == Init => IInv
<1> SUFFICES ASSUME Init PROVE IInv OBVIOUS
<1> USE StorageAssumption DEF Init
<1>1. TypeOK
  <2>1. nvs \in Stores /\ flash \in Stores OBVIOUS
  <2>2. disk \in [Paths -> Contents \cup {Nil, Empty}] OBVIOUS
  <2>3. profiles \in [Slots -> {Nil} \cup (Creds \X Creds)] OBVIOUS
  <2>4. slots \in [Slots -> Images \cup {Factory, Empty}] OBVIOUS
  <2>5. boot \in Slots /\ running \in Slots /\ approved \subseteq Images \cup {Factory}
        BY DEF Slots
  <2>6. up \in BOOLEAN /\ mounted \in BOOLEAN /\ ok \in BOOLEAN /\ ignored \in BOOLEAN
        OBVIOUS
  <2> QED BY <2>1, <2>2, <2>3, <2>4, <2>5, <2>6 DEF TypeOK
<1>2. Shape
  <2>1. told \in [Items -> Promises] BY DEF Promises
  <2>2. calls \in Seq(SomeCall) OBVIOUS
  <2> QED BY <1>1, <2>1, <2>2 DEF Shape, CommandNames, Idle
<1>3. InProgress
      BY DEF Idle, InProgress, Setting, Clearing, Configuring, Refusing, Writing, Removing,
             Updating
<1>4. ConfigKept /\ ProfilesKept /\ UploadKept /\ UpdateKept
      BY ItemFacts DEF ConfigKept, ProfilesKept, UploadKept, UpdateKept
<1>5. UploadWhole BY ItemFacts DEF UploadWhole
<1>6. SlotsKept BY DEF SlotsKept, Slots, Whole
<1> QED BY <1>2, <1>3, <1>4, <1>5, <1>6 DEF IInv, Promised

LEMMA BootStep == IInv /\ Boot => IInv'
<1> SUFFICES ASSUME IInv, Boot PROVE IInv' OBVIOUS
<1> USE DEF IInv
<1>1. command.name = "none" /\ UNCHANGED <<store, disk, slots, boot, approved, session, told,
                                           ignored, counts>>
      BY DEF Boot, Shape
<1>2. Shape'
  <2>1. profiles' \in [Slots -> {Nil} \cup (Creds \X Creds)]
        /\ auth' \in {Nil} \cup (Texts \X Texts \X Texts)
        BY Loaded DEF Boot, Shape, TypeOK
  <2>2. running' \in Slots BY BootFinds DEF Boot, Promised
  <2>3. up' \in BOOLEAN /\ mounted' \in BOOLEAN BY DEF Boot
  <2>4. TypeOK'
        BY <1>1, <2>1, <2>2, <2>3 DEF Shape, TypeOK, store, session, counts
  <2> QED BY <1>1, <2>3, <2>4 DEF Boot, Shape, session, Idle
<1>3. InProgress' BY <1>1, NothingInProgress DEF session
<1>4. /\ ConfigKept' /\ ProfilesKept' /\ UploadKept' /\ UploadWhole'
      BY <1>1, StoreFrame, FilesFrame DEF Promised, store
<1>5. UpdateKept' BY <1>1 DEF Promised, UpdateKept, Chosen
<1>6. SlotsKept' BY <1>1, BootFinds DEF Promised, SlotsKept, Boot
<1> QED BY <1>2, <1>3, <1>4, <1>5, <1>6 DEF Promised

LEMMA ResetStep == IInv /\ Reset => IInv'
<1> SUFFICES ASSUME IInv, Reset PROVE IInv' OBVIOUS
<1> USE DEF IInv
<1>1. PICK lost \in SUBSET {k \in Keys : nvs[k] # flash[k]} :
          nvs' = [k \in Keys |-> IF k \in lost THEN flash[k] ELSE nvs[k]]
      BY DEF Reset
<1>2. /\ flash' = nvs' /\ ~up' /\ command' = Idle /\ calls' = << >> /\ ok'
      /\ UNCHANGED <<disk, ram, ota, told, ignored, counts>>
      BY DEF Reset
<1>3. Shape'
  <2>1. nvs' \in Stores
    <3>1. nvs \in Stores /\ flash \in Stores BY DEF Shape, TypeOK
    <3>2. lost \in SUBSET Keys OBVIOUS
    <3> QED BY <1>1, <3>1, <3>2, StoreMix
  <2>2. up' \in BOOLEAN /\ ok' \in BOOLEAN BY DEF Reset
  <2>3. TypeOK' BY <1>2, <2>1, <2>2 DEF Shape, TypeOK, ram, ota, counts
  <2> QED BY <1>2, <2>3 DEF Shape, Idle, CommandNames
<1>4. InProgress' BY <1>2, NothingInProgress DEF Idle
<1>5. \A k \in Keys : nvs[k] = flash[k] => nvs'[k] = nvs[k] /\ flash'[k] = nvs[k]
      BY <1>1, <1>2
<1>6. ConfigKept' BY <1>2, <1>5, ItemFacts DEF Promised, ConfigKept
<1>7. ProfilesKept'
      BY <1>2, <1>5, ItemFacts DEF Promised, ProfilesKept
<1>8. UploadKept' /\ UploadWhole' /\ UpdateKept' /\ SlotsKept'
      BY <1>2, FilesFrame, SlotsFrame DEF Promised, ota
<1> QED BY <1>3, <1>4, <1>6, <1>7, <1>8 DEF Promised

-----------------------------------------------------------------------------
(* The beginning of a command                                              *)

LEMMA SomeCalls ==
    /\ \A k \in Keys, v \in {Nil} \cup Creds \cup ({"str", "blob"} \X Texts) :
           SetKey(k, v) \in SomeCall /\ Erase(k) \in SomeCall
    /\ Commit \in SomeCall
    /\ \A p, q \in Paths, v \in Contents \cup {Nil} :
           /\ Open(p) \in SomeCall /\ Write(p, v) \in SomeCall /\ Close(p, v) \in SomeCall
           /\ Rename(p, q) \in SomeCall /\ Remove(p) \in SomeCall
    /\ \A image \in Images : OtaWrite(image) \in SomeCall
    /\ OtaBegin \in SomeCall /\ OtaEnd \in SomeCall /\ OtaSelect \in SomeCall
<1> DEFINE On == Keys \cup Paths \cup {"none"}
<1>1. \A o \in Ops, x \in On, v \in Values : [op |-> o, on |-> x, value |-> v] \in SomeCall
      BY DEF SomeCall
<1>2. Nil \in Values /\ Creds \subseteq Values /\ {"str", "blob"} \X Texts \subseteq Values
      /\ Contents \subseteq Values /\ Paths \subseteq Values /\ Images \subseteq Values
      BY DEF Values
<1>3. Keys \subseteq On /\ Paths \subseteq On /\ "none" \in On OBVIOUS
<1> HIDE DEF On
<1> USE <1>1, <1>2, <1>3 DEF Ops
<1>4. \A k \in Keys, v \in {Nil} \cup Creds \cup ({"str", "blob"} \X Texts) :
          SetKey(k, v) \in SomeCall /\ Erase(k) \in SomeCall
      BY DEF SetKey, Erase
<1>5. Commit \in SomeCall BY DEF Commit
<1>6. \A p \in Paths, v \in Contents \cup {Nil} :
          Open(p) \in SomeCall /\ Write(p, v) \in SomeCall /\ Close(p, v) \in SomeCall
      BY DEF Open, Write, Close
<1>7. \A p, q \in Paths : Rename(p, q) \in SomeCall /\ Remove(p) \in SomeCall
      BY DEF Rename, Remove
<1>8. \A image \in Images : OtaWrite(image) \in SomeCall BY DEF OtaWrite
<1>9. OtaBegin \in SomeCall /\ OtaEnd \in SomeCall /\ OtaSelect \in SomeCall
      BY DEF OtaBegin, OtaEnd, OtaSelect
<1> QED BY <1>4, <1>5, <1>6, <1>7, <1>8, <1>9

LEMMA RestAll ==
    ASSUME NEW S, NEW list \in Seq(S), calls' = list
    PROVE  Left' = Len(list) /\ Rest(list)'
BY DEF Left, Rest

\* A command that begins keeps every promise but those on what it touches.
LEMMA BeginStep ==
    ASSUME IInv, NEW name \in CommandNames \ {"none"}, NEW item \in Items, NEW value,
           NEW touched, NEW list \in Seq(SomeCall), Begin(name, item, value, touched, list),
           approved \subseteq approved', approved' \subseteq Images \cup {Factory}
    PROVE  Shape' /\ Promised'
<1> USE DEF IInv
<1>1. /\ up /\ command = Idle /\ commands < MaxCommands
      /\ command'.name = name
      /\ calls' = list /\ commands' = commands + 1
      /\ UNCHANGED <<store, disk, up, ram, slots, boot, running, ignored, faults>>
      BY DEF Begin, Online
<1>2. ok' \in BOOLEAN BY DEF Begin
<1>3. told' = [i \in Items |-> IF i \in touched THEN Unknown ELSE told[i]] BY DEF Begin
<1>4. name \notin {"fs-write", "fs-remove"} => command'.was = Unknown BY DEF Begin
<1>5. Shape'
  <2>1. commands' \in 0..MaxCommands
        BY <1>1, StorageAssumption DEF Shape, TypeOK
  <2>2. TypeOK' BY <1>1, <1>2, <2>1 DEF Shape, TypeOK, store, ram
  <2>3. told' \in [Items -> Promises] BY <1>3 DEF Shape, Promises
  <2> QED BY <1>1, <1>4, <2>2, <2>3 DEF Shape
<1>6. \A i \in Items : told'[i] # Unknown => told'[i] = told[i] BY <1>3
<1>7. ConfigKept' BY <1>1, <1>6, ItemFacts DEF Promised, ConfigKept, store
<1>8. ProfilesKept'
  <2>1. \A s \in Slots : told'[Item[s]] # Unknown => told'[Item[s]] = told[Item[s]]
        BY <1>6, ItemFacts
  <2>2. nvs' = nvs /\ flash' = flash BY <1>1 DEF store
  <2> QED BY <2>1, <2>2 DEF Promised, ProfilesKept
<1>9. UploadKept' /\ UploadWhole'
      BY <1>1, <1>6, ItemFacts DEF Promised, UploadKept, UploadWhole
<1>10. UpdateKept' BY <1>1, <1>6, ItemFacts DEF Promised, UpdateKept, Chosen
<1>11. SlotsKept' BY <1>1 DEF Promised, SlotsKept
<1> QED BY <1>5, <1>7, <1>8, <1>9, <1>10, <1>11 DEF Promised

LEMMA WifiConfigAccepted ==
    ASSUME IInv, NEW s \in Slots, NEW c \in Fitting, WifiConfig(s, c)
    PROVE  IInv'
<1> DEFINE list == WifiConfigCalls(s, c)
<1>1. Begin("wifi-config", Item[s], <<c, c>>, {Item[s]}, list) /\ UNCHANGED approved
      BY DEF WifiConfig, Fitting
<1>2. list \in Seq(SomeCall)
  <2>1. SetKey(SsidKey[s], c) \in SomeCall /\ SetKey(PasswordKey[s], c) \in SomeCall
        /\ Commit \in SomeCall
        BY SomeCalls, ItemFacts DEF Fitting
  <2>2. SetKey("wifi_ssid", c) \in SomeCall /\ SetKey("wifi_password", c) \in SomeCall
        BY SomeCalls, ItemFacts DEF WifiKeys, Fitting
  <2>3. CASE s = 0 BY <2>1, <2>2, <2>3 DEF WifiConfigCalls
  <2>4. CASE s # 0 BY <2>1, <2>4 DEF WifiConfigCalls
  <2> QED BY <2>3, <2>4
<1>3. Len(list) \in {3, 5} BY WifiList
<1> HIDE DEF list
<1>4. Shape' /\ Promised'
      BY <1>1, <1>2, BeginStep, ItemFacts DEF CommandNames, IInv, Shape, TypeOK
<1>5. /\ command'.name = "wifi-config" /\ command'.item = Item[s] /\ command'.value = <<c, c>>
      /\ told'[Item[s]] = Unknown /\ calls' = list
      BY <1>1, ItemFacts DEF Begin
<1>6. Left' = Len(list) /\ Rest(list)' BY <1>2, <1>5, RestAll
<1>7. Configuring'
  <2> SUFFICES LET total == Len(list) IN
               /\ command'.item = Item[s] /\ command'.value = <<c, c>>
               /\ told'[Item[s]] = Unknown
               /\ Rest(list)'
               /\ ok' /\ Left' < total => nvs'[SsidKey[s]] = c
               /\ ok' /\ Left' < total - 1 => nvs'[PasswordKey[s]] = c
               /\ ok' /\ Left' = 0 => flash'[SsidKey[s]] = c /\ flash'[PasswordKey[s]] = c
      BY DEF Configuring, list
  <2> QED BY <1>3, <1>5, <1>6
<1>8. InProgress'
      BY <1>5, <1>7 DEF InProgress, Setting, Clearing, Refusing, Writing, Removing, Updating
<1> QED BY <1>4, <1>8 DEF IInv

LEMMA WifiConfigRefused ==
    ASSUME IInv, NEW s \in Slots, NEW c \in LongSsids \cup LongPasswords, WifiConfig(s, c)
    PROVE  IInv'
<1>1. Begin("wifi-config", Item[s], <<c, c>>, {}, << >>) /\ UNCHANGED approved
      BY DEF WifiConfig
<1>2. Shape' /\ Promised'
  <2>1. << >> \in Seq(SomeCall) /\ Item[s] \in Items BY ItemFacts
  <2>2. "wifi-config" \in CommandNames \ {"none"} BY DEF CommandNames
  <2>3. approved \subseteq approved' /\ approved' \subseteq Images \cup {Factory}
        BY <1>1 DEF IInv, Shape, TypeOK
  <2> QED BY <1>1, <2>1, <2>2, <2>3, BeginStep
<1>3. InProgress'
      BY <1>1 DEF Begin, InProgress, Setting, Clearing, Configuring, Refusing, Writing,
                  Removing, Updating
<1> QED BY <1>2, <1>3 DEF IInv

LEMMA WifiConfigStep ==
    ASSUME IInv, NEW s \in Slots, NEW c \in Creds, WifiConfig(s, c)
    PROVE  IInv'
BY WifiConfigAccepted, WifiConfigRefused DEF Fitting

LEMMA WifiProfileClearStep ==
    ASSUME IInv, NEW s \in Slots, WifiProfileClear(s)
    PROVE  IInv'
<1>1. Begin("wifi-profile-clear", Item[s], Nil, {}, << >>) /\ UNCHANGED approved
      BY DEF WifiProfileClear
<1>2. Shape' /\ Promised'
  <2>1. << >> \in Seq(SomeCall) /\ Item[s] \in Items BY ItemFacts
  <2>2. "wifi-profile-clear" \in CommandNames \ {"none"} BY DEF CommandNames
  <2>3. approved \subseteq approved' /\ approved' \subseteq Images \cup {Factory}
        BY <1>1 DEF IInv, Shape, TypeOK
  <2> QED BY <1>1, <2>1, <2>2, <2>3, BeginStep
<1>3. InProgress'
      BY <1>1 DEF Begin, InProgress, Setting, Clearing, Configuring, Refusing, Writing,
                  Removing, Updating
<1> QED BY <1>2, <1>3 DEF IInv

LEMMA ConfigSetStep ==
    ASSUME IInv, NEW k \in SetKeys, NEW v \in Texts, ConfigSet(k, v)
    PROVE  IInv'
<1> DEFINE list == ConfigSetCalls(k, v)
<1>1. Begin("config-set", k, Typed(k, v), {k}, list) /\ UNCHANGED approved
      BY DEF ConfigSet
<1>2. Typed(k, v) \in {"str", "blob"} \X Texts BY DEF Typed, Str, Blob
<1>3. list \in Seq(SomeCall) /\ Len(list) = 2
  <2>1. SetKey(k, Typed(k, v)) \in SomeCall /\ Commit \in SomeCall
        BY <1>2, SomeCalls, ItemFacts
  <2> QED BY <2>1 DEF ConfigSetCalls
<1> HIDE DEF list
<1>4. Shape' /\ Promised'
      BY <1>1, <1>3, BeginStep, ItemFacts DEF CommandNames, IInv, Shape, TypeOK
<1>5. /\ command'.name = "config-set" /\ command'.item = k /\ command'.value = Typed(k, v)
      /\ told'[k] = Unknown /\ calls' = list
      BY <1>1, ItemFacts DEF Begin
<1>6. Left' = 2 /\ Rest(list)' BY <1>3, <1>5, RestAll
<1>7. Rest(<<SetKey(command.item, command.value), Commit>>)'
      BY <1>5, <1>6 DEF list, ConfigSetCalls
<1>8. Setting' BY <1>2, <1>5, <1>6, <1>7 DEF Setting
<1>9. InProgress'
      BY <1>5, <1>8 DEF InProgress, Configuring, Clearing, Refusing, Writing, Removing, Updating
<1> QED BY <1>4, <1>9 DEF IInv

LEMMA ConfigClearStep ==
    ASSUME IInv, ConfigClear
    PROVE  IInv'
<1>1. Begin("config-clear", "ota_public_key", Nil, {"ota_public_key"}, ConfigClearCalls)
      /\ UNCHANGED approved
      BY DEF ConfigClear
<1>2. ConfigClearCalls \in Seq(SomeCall) /\ Len(ConfigClearCalls) = 3
  <2>1. /\ Erase("app_public_key") \in SomeCall /\ Erase("ota_public_key") \in SomeCall
        /\ Commit \in SomeCall
        BY SomeCalls DEF Keys, SetKeys
  <2> QED BY <2>1 DEF ConfigClearCalls
<1>3. "ota_public_key" \in SetKeys BY DEF SetKeys
<1>4. Shape' /\ Promised'
      BY <1>1, <1>2, <1>3, BeginStep, ItemFacts DEF CommandNames, IInv, Shape, TypeOK
<1>5. /\ command'.name = "config-clear" /\ command'.item = "ota_public_key"
      /\ command'.value = Nil
      /\ told'["ota_public_key"] = Unknown /\ calls' = ConfigClearCalls
      BY <1>1, <1>3, ItemFacts DEF Begin
<1>6. Left' = 3 /\ Rest(ConfigClearCalls)' BY <1>2, <1>5, RestAll
<1>7. Clearing' BY <1>5, <1>6 DEF Clearing
<1>8. InProgress'
      BY <1>5, <1>7 DEF InProgress, Configuring, Setting, Refusing, Writing, Removing, Updating
<1> QED BY <1>4, <1>8 DEF IInv

LEMMA FsWriteStep ==
    ASSUME IInv, NEW f \in Files, NEW v \in Contents, FsWrite(f, v)
    PROVE  IInv'
<1> DEFINE list == FsWriteCalls(f, v)
<1>1. Begin("fs-write", f, v, {f, Temp[f]}, list) /\ UNCHANGED approved
      BY DEF FsWrite
<1>2. f \in Paths /\ Temp[f] \in Paths /\ f \in Items /\ Temp[f] \in Items BY ItemFacts
<1>3. list \in Seq(SomeCall) /\ Len(list) = 4
  <2>1. /\ Open(Temp[f]) \in SomeCall /\ Write(Temp[f], v) \in SomeCall
        /\ Close(Temp[f], v) \in SomeCall /\ Rename(Temp[f], f) \in SomeCall
        BY <1>2, SomeCalls
  <2> QED BY <2>1 DEF FsWriteCalls
<1> HIDE DEF list
<1>4. Shape' /\ Promised'
  <2>1. "fs-write" \in CommandNames \ {"none"} BY DEF CommandNames
  <2>2. approved \subseteq approved' /\ approved' \subseteq Images \cup {Factory}
        BY <1>1 DEF IInv, Shape, TypeOK
  <2> QED BY <1>1, <1>2, <1>3, <2>1, <2>2, BeginStep
<1>5. /\ command'.name = "fs-write" /\ command'.item = f /\ command'.value = v
      /\ command'.was = told[f] /\ calls' = list /\ ok' = (list # << >>)
      /\ UNCHANGED <<disk, ignored>>
      BY <1>1 DEF Begin
<1>6. told'[f] = Unknown /\ told'[Temp[f]] = Unknown BY <1>1, <1>2 DEF Begin
<1>7. Left' = 4 /\ Rest(list)' BY <1>3, <1>5, RestAll
<1>8. ok'
  <2>1. list # << >> BY <1>3 DEF list, FsWriteCalls
  <2> QED BY <1>5, <2>1, Zenon
<1>9. told[f] \in Promises BY <1>2 DEF IInv, Shape
<1>10. ~ignored /\ told[f] # Unknown => disk[f] = told[f]
      BY <1>2 DEF IInv, Promised, UploadKept
<1>11. Rest(FsWriteCalls(command.item, command.value))' BY <1>5, <1>7 DEF list
<1>12. Writing'
      BY <1>5, <1>6, <1>7, <1>8, <1>9, <1>10, <1>11 DEF Writing
<1>13. InProgress'
      BY <1>5, <1>12 DEF InProgress, Configuring, Setting, Clearing, Refusing, Removing, Updating
<1> QED BY <1>4, <1>13 DEF IInv

LEMMA FsRemoveStep ==
    ASSUME IInv, NEW f \in Files, FsRemove(f)
    PROVE  IInv'
<1> DEFINE list == <<Remove(f)>>
<1>1. Begin("fs-remove", f, Nil, {f}, list) /\ UNCHANGED approved
      BY DEF FsRemove
<1>2. f \in Paths /\ f \in Items BY ItemFacts
<1>3. list \in Seq(SomeCall) /\ Len(list) = 1 BY <1>2, SomeCalls
<1> HIDE DEF list
<1>4. Shape' /\ Promised'
  <2>1. "fs-remove" \in CommandNames \ {"none"} BY DEF CommandNames
  <2>2. approved \subseteq approved' /\ approved' \subseteq Images \cup {Factory}
        BY <1>1 DEF IInv, Shape, TypeOK
  <2> QED BY <1>1, <1>2, <1>3, <2>1, <2>2, BeginStep
<1>5. /\ command'.name = "fs-remove" /\ command'.item = f /\ command'.value = Nil
      /\ command'.was = told[f] /\ calls' = list /\ ok' = (list # << >>)
      /\ UNCHANGED <<disk, ignored>>
      BY <1>1 DEF Begin
<1>6. told'[f] = Unknown BY <1>1, <1>2 DEF Begin
<1>7. Left' = 1 /\ Rest(list)' BY <1>3, <1>5, RestAll
<1>8. ok'
  <2>1. list # << >> BY <1>3
  <2> QED BY <1>5, <2>1, Zenon
<1>9. told[f] \in Promises BY <1>2 DEF IInv, Shape
<1>10. ~ignored /\ told[f] # Unknown => disk[f] = told[f]
      BY <1>2 DEF IInv, Promised, UploadKept
<1>11. Rest(<<Remove(command.item)>>)' BY <1>5, <1>7 DEF list
<1>12. Removing'
      BY <1>5, <1>6, <1>7, <1>8, <1>9, <1>10, <1>11 DEF Removing
<1>13. InProgress'
      BY <1>5, <1>12 DEF InProgress, Configuring, Setting, Clearing, Refusing, Writing, Updating
<1> QED BY <1>4, <1>13 DEF IInv

LEMMA OtaApplyStep ==
    ASSUME IInv, NEW image \in Images, OtaApply(image)
    PROVE  IInv'
<1>1. "ota" \in CommandNames \ {"none"} BY DEF CommandNames
<1>2. "ota" \in Items BY ItemFacts
<1>3. CASE Verified(image) /\ image \notin Oversized
  <2> DEFINE list == OtaCalls(image)
  <2>1. Begin("ota", "ota", image, {"ota"}, list) /\ approved' = approved \cup {image}
        BY <1>3 DEF OtaApply, Verified
  <2>2. list \in Seq(SomeCall) /\ Len(list) = 4 BY SomeCalls DEF OtaCalls
  <2> HIDE DEF list
  <2>3. Shape' /\ Promised'
    <3>1. approved \subseteq approved' /\ approved' \subseteq Images \cup {Factory}
          BY <2>1 DEF IInv, Shape, TypeOK
    <3> QED BY <1>1, <1>2, <2>1, <2>2, <3>1, BeginStep
  <2>4. /\ command'.name = "ota" /\ command'.item = "ota" /\ command'.value = image
        /\ told'["ota"] = Unknown /\ calls' = list /\ ok' = (list # << >>)
        BY <1>2, <2>1 DEF Begin
  <2>5. Left' = 4 /\ Rest(list)' BY <2>2, <2>4, RestAll
  <2>6. ok'
    <3>1. list # << >> BY <2>2 DEF list, OtaCalls
    <3> QED BY <2>4, <3>1, Zenon
  <2>7. Rest(OtaCalls(command.value))' BY <2>4, <2>5 DEF list
  <2>8. Updating' BY <2>1, <2>4, <2>5, <2>6, <2>7 DEF Updating
  <2>9. InProgress'
        BY <2>4, <2>8 DEF InProgress, Configuring, Setting, Clearing, Refusing, Writing,
                          Removing
  <2> QED BY <2>3, <2>9 DEF IInv
<1>4. CASE ~(Verified(image) /\ image \notin Oversized)
  <2>1. Begin("ota", "ota", image, {}, << >>) /\ UNCHANGED approved
        BY <1>4 DEF OtaApply
  <2>2. << >> \in Seq(SomeCall) OBVIOUS
  <2>3. Shape' /\ Promised'
    <3>1. approved \subseteq approved' /\ approved' \subseteq Images \cup {Factory}
          BY <2>1 DEF IInv, Shape, TypeOK
    <3> QED BY <1>1, <1>2, <2>1, <2>2, <3>1, BeginStep
  <2>4. command'.name = "ota" /\ command'.item = "ota" /\ calls' = << >> /\ ~ok'
        BY <2>1 DEF Begin
  <2>5. Left' = 0 BY <2>4 DEF Left
  <2>6. Updating' BY <2>4, <2>5 DEF Updating
  <2>7. InProgress'
        BY <2>4, <2>6 DEF InProgress, Configuring, Setting, Clearing, Refusing, Writing,
                          Removing
  <2> QED BY <2>3, <2>7 DEF IInv
<1> QED BY <1>3, <1>4

LEMMA TypeStep == IInv /\ Type => IInv'
BY WifiConfigStep, WifiProfileClearStep, ConfigSetStep, ConfigClearStep, FsWriteStep,
   FsRemoveStep, OtaApplyStep DEF Type

-----------------------------------------------------------------------------
(* The answer                                                              *)

\* When a command has succeeded, what it is about to promise is true.
LEMMA Fulfilled ==
    ASSUME IInv, command # Idle, calls = << >>, ok
    PROVE  /\ command.item \in Items /\ command.value \in Promises
           /\ command.item \in SetKeys =>
                  nvs[command.item] = command.value /\ flash[command.item] = command.value
           /\ \A s \in Slots : command.item = Item[s] =>
                  \E c \in Fitting :
                      /\ command.value = <<c, c>>
                      /\ nvs[SsidKey[s]] = c /\ flash[SsidKey[s]] = c
                      /\ nvs[PasswordKey[s]] = c /\ flash[PasswordKey[s]] = c
           /\ ~ignored /\ command.item \in Paths => disk[command.item] = command.value
           /\ command.item = "ota" => slots[Chosen] = command.value
<1> USE DEF IInv, InProgress
<1>1. Left = 0 BY DEF Left
<1>2. command.name # "none" BY DEF Shape
<1>3. CASE command.name = "config-set"
  <2>1. /\ command.item \in SetKeys /\ command.value \in {"str", "blob"} \X Texts
        /\ nvs[command.item] = command.value /\ flash[command.item] = command.value
        BY <1>1, <1>3 DEF Setting
  <2>2. command.value \in Promises BY <2>1 DEF Promises
  <2> QED BY <2>1, <2>2, ItemFacts
<1>4. CASE command.name = "config-clear"
  <2>1. /\ command.item = "ota_public_key" /\ command.value = Nil
        /\ nvs["ota_public_key"] = Nil /\ flash["ota_public_key"] = Nil
        BY <1>1, <1>4 DEF Clearing
  <2>2. command.value \in Promises BY <2>1 DEF Promises
  <2>3. command.item \in SetKeys BY <2>1 DEF SetKeys
  <2> QED BY <2>1, <2>2, <2>3, ItemFacts
<1>5. CASE command.name = "wifi-config"
  <2>1. PICK s \in Slots, c \in Fitting :
            /\ command.item = Item[s] /\ command.value = <<c, c>>
            /\ nvs[SsidKey[s]] = c /\ flash[SsidKey[s]] = c
            /\ nvs[PasswordKey[s]] = c /\ flash[PasswordKey[s]] = c
    <3>1. PICK s \in Slots, c \in Fitting :
            LET total == Len(WifiConfigCalls(s, c)) IN
            /\ command.item = Item[s] /\ command.value = <<c, c>>
            /\ ok /\ Left < total => nvs[SsidKey[s]] = c
            /\ ok /\ Left < total - 1 => nvs[PasswordKey[s]] = c
            /\ ok /\ Left = 0 => flash[SsidKey[s]] = c /\ flash[PasswordKey[s]] = c
          BY <1>5 DEF Configuring
    <3>2. Len(WifiConfigCalls(s, c)) \in {3, 5} BY WifiList
    <3>3. Left < Len(WifiConfigCalls(s, c)) /\ Left < Len(WifiConfigCalls(s, c)) - 1
          BY <1>1, <3>2
    <3>4. /\ nvs[SsidKey[s]] = c /\ nvs[PasswordKey[s]] = c
          /\ flash[SsidKey[s]] = c /\ flash[PasswordKey[s]] = c
          BY <1>1, <3>1, <3>3
    <3> QED BY <3>1, <3>4
  <2>2. command.value \in Promises BY <2>1 DEF Promises, Fitting
  <2> QED BY <2>1, <2>2, ItemFacts
<1>6. CASE command.name = "wifi-profile-clear" BY <1>6 DEF Refusing
<1>7. CASE command.name = "fs-write"
  <2>1. /\ command.item \in Files /\ command.value \in Contents
        /\ ~ignored => disk[command.item] = command.value
        BY <1>1, <1>7 DEF Writing
  <2>2. command.value \in Promises BY <2>1 DEF Promises
  <2> QED BY <2>1, <2>2, ItemFacts
<1>8. CASE command.name = "fs-remove"
  <2>1. /\ command.item \in Files /\ command.value = Nil
        /\ ~ignored => disk[command.item] = Nil
        BY <1>1, <1>8 DEF Removing
  <2>2. command.value \in Promises BY <2>1 DEF Promises
  <2> QED BY <2>1, <2>2, ItemFacts
<1>9. CASE command.name = "ota"
  <2>1. /\ command.item = "ota" /\ command.value \in Images
        /\ slots[Target] = command.value /\ Whole(command.value) /\ boot = Target
        BY <1>1, <1>9 DEF Updating
  <2>2. slots[Chosen] = command.value BY <2>1 DEF Chosen
  <2>3. command.value \in Promises BY <2>1 DEF Promises
  <2> QED BY <2>1, <2>2, <2>3, ItemFacts
<1> QED BY <1>2, <1>3, <1>4, <1>5, <1>6, <1>7, <1>8, <1>9 DEF Shape, CommandNames

\* A failed fs-write or fs-remove left the file as it was.
LEMMA LeftAlone ==
    ASSUME IInv, command # Idle, calls = << >>, ~ok, command.was # Unknown
    PROVE  /\ command.item \in Files /\ command.was \in Promises
           /\ ~ignored => disk[command.item] = command.was
<1>1. command.name \in {"fs-write", "fs-remove"} BY DEF IInv, Shape
<1> QED BY <1>1 DEF IInv, InProgress, Writing, Removing

LEMMA AnswerStep == IInv /\ Answer => IInv'
<1> SUFFICES ASSUME IInv, Answer PROVE IInv' OBVIOUS
<1>1. /\ command # Idle /\ calls = << >> /\ command' = Idle /\ ok'
      /\ UNCHANGED <<store, disk, up, ram, ota, calls, ignored, counts>>
      BY DEF Answer
<1>2. InProgress' BY <1>1, NothingInProgress DEF Idle
<1>3. CASE ok
  <2>1. told' = [told EXCEPT ![command.item] = command.value]
        BY <1>3 DEF Answer
  <2> DEFINE item == command.item
  <2>2. /\ item \in Items /\ command.value \in Promises
        /\ item \in SetKeys => nvs[item] = command.value /\ flash[item] = command.value
        /\ \A s \in Slots : item = Item[s] =>
               \E c \in Fitting :
                   /\ command.value = <<c, c>>
                   /\ nvs[SsidKey[s]] = c /\ flash[SsidKey[s]] = c
                   /\ nvs[PasswordKey[s]] = c /\ flash[PasswordKey[s]] = c
        /\ ~ignored /\ item \in Paths => disk[item] = command.value
        /\ item = "ota" => slots[Chosen] = command.value
        BY <1>1, <1>3, Fulfilled
  <2>3. /\ told' \in [Items -> Promises]
        /\ \A i \in Items : told'[i] = IF i = item THEN command.value ELSE told[i]
        BY <2>1, <2>2 DEF IInv, Shape
  <2> HIDE DEF item
  <2>4. Shape'
    <3>1. TypeOK' BY <1>1 DEF IInv, Shape, TypeOK, store, ram, ota, counts
    <3> QED BY <1>1, <2>3, <3>1 DEF IInv, Shape, Idle, CommandNames
  <2>5. ConfigKept' BY <1>1, <2>2, <2>3, ItemFacts DEF IInv, Promised, ConfigKept, store
  <2>6. ProfilesKept'
    <3>1. nvs' = nvs /\ flash' = flash BY <1>1 DEF store
    <3>2. \A s \in Slots : told'[Item[s]] = IF Item[s] = item THEN command.value ELSE told[Item[s]]
          BY <2>3, ItemFacts
    <3> QED BY <2>2, <3>1, <3>2 DEF IInv, Promised, ProfilesKept
  <2>7. UploadKept' /\ UploadWhole'
        BY <1>1, <2>2, <2>3, ItemFacts DEF IInv, Promised, UploadKept, UploadWhole
  <2>8. UpdateKept' /\ SlotsKept'
        BY <1>1, <2>2, <2>3, ItemFacts DEF IInv, Promised, UpdateKept, SlotsKept, Chosen, ota
  <2> QED BY <1>2, <2>4, <2>5, <2>6, <2>7, <2>8 DEF IInv, Promised
<1>4. CASE ~ok
  <2> DEFINE item == command.item
  <2>1. \/ told' = told
        \/ /\ command.was # Unknown /\ item \in Files /\ command.was \in Promises
           /\ ~ignored => disk[item] = command.was
           /\ told' = [told EXCEPT ![item] = command.was]
        BY <1>1, <1>4, LeftAlone DEF Answer
  <2>2. told' \in [Items -> Promises]
        BY <2>1 DEF IInv, Shape
  <2>3. \A i \in Items \ Files : told'[i] = told[i] BY <2>1 DEF IInv, Shape
  <2>4. \A p \in Paths : told'[p] # Unknown /\ told'[p] # told[p] =>
            (~ignored => disk[p] = told'[p])
        BY <2>1, ItemFacts DEF IInv, Shape
  <2> HIDE DEF item
  <2>5. Shape'
    <3>1. TypeOK' BY <1>1 DEF IInv, Shape, TypeOK, store, ram, ota, counts
    <3> QED BY <1>1, <2>2, <3>1 DEF IInv, Shape, Idle, CommandNames
  <2>6. ConfigKept' BY <1>1, <2>3, ItemFacts DEF IInv, Promised, ConfigKept, store
  <2>7. ProfilesKept'
    <3>1. nvs' = nvs /\ flash' = flash BY <1>1 DEF store
    <3>2. \A s \in Slots : told'[Item[s]] = told[Item[s]] BY <2>3, ItemFacts
    <3> QED BY <3>1, <3>2 DEF IInv, Promised, ProfilesKept
  <2>8. UploadKept' /\ UploadWhole'
        BY <1>1, <2>4 DEF IInv, Promised, UploadKept, UploadWhole
  <2>9. UpdateKept' /\ SlotsKept'
        BY <1>1, <2>3, ItemFacts DEF IInv, Promised, UpdateKept, SlotsKept, Chosen, ota
  <2> QED BY <1>2, <2>5, <2>6, <2>7, <2>8, <2>9 DEF IInv, Promised
<1> QED BY <1>3, <1>4

-----------------------------------------------------------------------------
(* What all library calls share                                            *)

\* The commands that make a call of a kind.
LEMMA Caller ==
    ASSUME Shape, InProgress, calls # << >>
    PROVE  /\ This.op = "set" => command.name \in {"config-set", "wifi-config"}
           /\ This.op = "erase" => command.name = "config-clear"
           /\ This.op = "commit" => command.name \in {"config-set", "wifi-config", "config-clear"}
           /\ This.op \in {"open", "write", "close", "rename"} => command.name = "fs-write"
           /\ This.op = "remove" => command.name \in {"fs-write", "fs-remove"}
           /\ This.op \in {"ota-begin", "ota-write", "ota-end", "ota-select"} =>
                  command.name = "ota"
<1> USE DEF SetKey, Erase, Commit, Open, Write, Close, Rename, Remove, OtaBegin, OtaWrite, OtaEnd,
            OtaSelect
<1>1. CASE command.name = "config-set"
  <2>1. This.op \in {"set", "commit"} BY <1>1, NextSetting
  <2> QED BY <1>1, <2>1
<1>2. CASE command.name = "config-clear"
  <2>1. This.op \in {"erase", "commit"} BY <1>2, NextClearing
  <2> QED BY <1>2, <2>1
<1>3. CASE command.name = "wifi-config"
  <2>1. PICK s \in Slots, c \in Fitting : Rest(WifiConfigCalls(s, c))
        BY <1>3 DEF InProgress, Configuring
  <2>2. This.op \in {"set", "commit"} BY <2>1, NextConfiguring
  <2> QED BY <1>3, <2>2
<1>4. CASE command.name = "fs-write"
  <2>1. ok \/ ~ok OBVIOUS
  <2>2. This.op \in {"open", "write", "close", "rename", "remove"}
        BY <1>4, <2>1, NextWriting
  <2> QED BY <1>4, <2>2
<1>5. CASE command.name = "fs-remove"
  <2>1. This.op = "remove" BY <1>5, NextRemoving
  <2> QED BY <1>5, <2>1
<1>6. CASE command.name = "ota"
  <2>1. \/ This = OtaBegin \/ This = OtaWrite(command.value)
        \/ This = OtaEnd \/ This = OtaSelect
        BY <1>6, NextUpdating
  <2>2. This.op \in {"ota-begin", "ota-write", "ota-end", "ota-select"} BY <2>1
  <2> QED BY <1>6, <2>2
<1> QED BY <1>1, <1>2, <1>3, <1>4, <1>5, <1>6, NextNames

LEMMA Counted ==
    ASSUME Shape, Fault \/ Fine
    PROVE  faults' \in 0..MaxFaults
BY StorageAssumption DEF Shape, TypeOK, Fault, Fine

LEMMA Ends ==
    ASSUME Shape, calls # << >>, Continue \/ GiveUp
    PROVE  calls' \in Seq(SomeCall) /\ ok' \in BOOLEAN
<1>1. calls \in Seq(SomeCall) /\ ok \in BOOLEAN BY DEF Shape, TypeOK
<1>2. CASE Continue
  <2>1. calls' \in Seq(SomeCall) BY <1>1, <1>2 DEF Continue
  <2>2. ok' \in BOOLEAN BY <1>1, <1>2 DEF Continue
  <2> QED BY <2>1, <2>2
<1>3. CASE GiveUp
  <2>1. calls' \in Seq(SomeCall) BY <1>3 DEF GiveUp
  <2>2. ok' \in BOOLEAN BY <1>3 DEF GiveUp
  <2> QED BY <2>1, <2>2
<1> QED BY <1>2, <1>3

LEMMA CallShape ==
    ASSUME Shape, calls # << >>, Elsewhere, faults' \in 0..MaxFaults,
           calls' \in Seq(SomeCall), ok' \in BOOLEAN, ignored' \in BOOLEAN,
           nvs' \in Stores, flash' \in Stores, disk' \in [Paths -> Contents \cup {Nil, Empty}],
           slots' \in [Slots -> Images \cup {Factory, Empty}], boot' \in Slots
    PROVE  Shape'
<1>1. TypeOK' BY DEF Shape, TypeOK, Elsewhere, ram
<1> QED BY <1>1 DEF Shape, Elsewhere

\* A command that gives up leaves its item unpromised.
LEMMA GaveUp ==
    ASSUME Shape, InProgress, calls # << >>, GiveUp, UNCHANGED <<command, told, disk, ignored>>
    PROVE  InProgress'
<1>1. calls' = << >> /\ ~ok' BY DEF GiveUp
<1>2. Left' = 0 /\ Left # 0 BY <1>1 DEF Left, Shape
<1>3. \A list : Len(list) \in Nat => 0 <= Len(list) OBVIOUS
<1>4. Setting'
  <2> DEFINE list == <<SetKey(command.item, command.value), Commit>>
  <2>1. Len(list') = 2 OBVIOUS
  <2> HIDE DEF list
  <2>2. Rest(list)' BY <1>2, <2>1 DEF Rest
  <2> QED BY <1>1, <2>2 DEF list, InProgress, Setting
<1>5. Clearing'
  <2>1. Len(ConfigClearCalls) = 3 BY DEF ConfigClearCalls
  <2>2. Rest(ConfigClearCalls)' BY <1>2, <2>1 DEF Rest
  <2> QED BY <1>1, <2>2 DEF InProgress, Clearing
<1>6. Configuring' BY <1>1 DEF Configuring
<1>7. Refusing' BY <1>1 DEF InProgress, Refusing
<1>8. Writing'
  <2> DEFINE list == <<Close(Temp[command.item], Nil), Remove(Temp[command.item])>>
  <2>1. Len(list') = 2 OBVIOUS
  <2> HIDE DEF list
  <2>2. Rest(list)' BY <1>2, <2>1 DEF Rest
  <2> QED BY <1>1, <1>2, <2>2 DEF list, InProgress, Writing
<1>9. Removing'
  <2> DEFINE list == <<Remove(command.item)>>
  <2>1. Len(list') = 1 OBVIOUS
  <2> HIDE DEF list
  <2>2. Rest(list)' BY <1>2, <2>1 DEF Rest
  <2> QED BY <1>1, <1>2, <2>2 DEF list, InProgress, Removing
<1>10. Updating' BY <1>1, <1>2 DEF InProgress, Updating
<1> QED BY <1>4, <1>5, <1>6, <1>7, <1>8, <1>9, <1>10 DEF InProgress

\* A call that fails, of a command that looks at its result, changes nothing else.
LEMMA GiveUpStep ==
    ASSUME IInv, calls # << >>, GiveUp, Fault \/ Fine, Elsewhere,
           UNCHANGED <<nvs, flash, disk, slots, boot, ignored>>
    PROVE  IInv'
<1> USE DEF IInv
<1>1. Shape'
  <2>1. faults' \in 0..MaxFaults BY Counted
  <2>2. calls' \in Seq(SomeCall) /\ ok' \in BOOLEAN BY Ends
  <2>3. /\ nvs' \in Stores /\ flash' \in Stores /\ disk' \in [Paths -> Contents \cup {Nil, Empty}]
        /\ slots' \in [Slots -> Images \cup {Factory, Empty}] /\ boot' \in Slots
        BY DEF Shape, TypeOK
  <2>4. ignored' \in BOOLEAN BY DEF Shape, TypeOK
  <2> QED BY <2>1, <2>2, <2>3, <2>4, CallShape
<1>2. InProgress' BY GaveUp DEF Elsewhere
<1>3. Promised' BY StoreFrame, FilesFrame, SlotsFrame DEF Promised, Elsewhere
<1> QED BY <1>1, <1>2, <1>3

-----------------------------------------------------------------------------
(* The calls on NVS                                                        *)

LEMMA OneKey ==
    ASSUME ConfigKept, ProfilesKept, NEW k \in Keys, NEW v, nvs \in Stores,
           nvs' = [nvs EXCEPT ![k] = v], UNCHANGED <<flash, told>>,
           k \in SetKeys => told[k] = Unknown,
           \A s \in Slots : k \in {SsidKey[s], PasswordKey[s]} => told[Item[s]] = Unknown
    PROVE  ConfigKept' /\ ProfilesKept'
<1>1. \A j \in Keys : j # k => nvs'[j] = nvs[j] BY DEF Stores
<1>2. ConfigKept' BY <1>1, ItemFacts DEF ConfigKept
<1>3. ProfilesKept' BY <1>1, ItemFacts DEF ProfilesKept
<1> QED BY <1>2, <1>3

\* A call that changes NVS and goes on keeps everything else.
LEMMA StoreShape ==
    ASSUME IInv, calls # << >>, calls' = Tail(calls), ok' \in BOOLEAN, Fault \/ Fine, NvsOnly,
           nvs' \in Stores, flash' \in Stores
    PROVE  Shape' /\ UploadKept' /\ UploadWhole' /\ UpdateKept' /\ SlotsKept'
<1> USE DEF IInv
<1>1. /\ Elsewhere /\ UNCHANGED <<disk, slots, boot, ignored>> BY DEF NvsOnly
<1>2. Shape'
  <2>1. faults' \in 0..MaxFaults BY Counted
  <2>2. calls' \in Seq(SomeCall) /\ ok' \in BOOLEAN BY CallMade DEF Shape
  <2>3. /\ disk' \in [Paths -> Contents \cup {Nil, Empty}]
        /\ slots' \in [Slots -> Images \cup {Factory, Empty}] /\ boot' \in Slots
        BY <1>1 DEF Shape, TypeOK
  <2>4. ignored' \in BOOLEAN BY <1>1 DEF Shape, TypeOK
  <2> QED BY <1>1, <2>1, <2>2, <2>3, <2>4, CallShape
<1> QED BY <1>1, <1>2, FilesFrame, SlotsFrame DEF Promised, Elsewhere

\* The calls that go on: what is left of the list of a command.
LEMMA GoesOn ==
    ASSUME Shape, calls # << >>, Continue, NEW list, Rest(list), Len(list) \in Nat
    PROVE  /\ Left \in Nat \ {0} /\ Left' = Left - 1 /\ (ok' <=> ok)
           /\ Left' <= Len(list)
           /\ \A i \in 1..Left' : calls'[i] = list[Len(list) - Left' + i]
<1>1. calls \in Seq(SomeCall) /\ calls' = Tail(calls) /\ ok' = ok BY DEF Shape, Continue
<1>2. Left \in Nat \ {0} /\ Left' = Left - 1 BY <1>1, CallMade
<1> QED BY <1>1, <1>2, RestTail

LEMMA SettingGoesOn ==
    ASSUME Shape, InProgress, calls # << >>, Continue, UNCHANGED <<command, told>>,
           command.name = "config-set",
           ok /\ Left' <= 1 => nvs'[command.item] = command.value,
           ok /\ Left' = 0 => flash'[command.item] = command.value
    PROVE  InProgress'
<1> DEFINE list == <<SetKey(command.item, command.value), Commit>>
<1>1. Rest(list) /\ Len(list) = 2 BY DEF InProgress, Setting
<1>2. list' = list OBVIOUS
<1> HIDE DEF list
<1>3. Rest(list)' /\ (ok' <=> ok)
  <2>1. Len(list) \in Nat BY <1>1
  <2> QED BY <1>1, <1>2, <2>1, GoesOn DEF Rest
<1>4. Setting' BY <1>3 DEF list, InProgress, Setting
<1> QED BY <1>4 DEF InProgress, Clearing, Configuring, Refusing, Writing, Removing, Updating

\* config-clear goes on after a call that failed, too.
LEMMA ClearingGoesOn ==
    ASSUME Shape, InProgress, calls # << >>, calls' = Tail(calls),
           UNCHANGED <<command, told>>, command.name = "config-clear",
           ok' /\ Left' <= 1 => nvs'["ota_public_key"] = Nil,
           ok' /\ Left' = 0 => flash'["ota_public_key"] = Nil
    PROVE  InProgress'
<1>1. Rest(ConfigClearCalls) /\ Len(ConfigClearCalls) = 3
      BY DEF InProgress, Clearing, ConfigClearCalls
<1>2. Rest(ConfigClearCalls)'
  <2>1. Len(ConfigClearCalls) \in Nat /\ calls \in Seq(SomeCall) BY <1>1 DEF Shape
  <2> QED BY <1>1, <2>1, RestTail DEF Rest
<1>3. Clearing' BY <1>2 DEF InProgress, Clearing
<1> QED BY <1>3 DEF InProgress, Setting, Configuring, Refusing, Writing, Removing, Updating

LEMMA ConfiguringGoesOn ==
    ASSUME Shape, InProgress, calls # << >>, Continue, UNCHANGED <<command, told>>,
           command.name = "wifi-config", NEW s \in Slots, NEW c \in Fitting,
           command.item = Item[s], command.value = <<c, c>>, told[Item[s]] = Unknown,
           Rest(WifiConfigCalls(s, c)),
           ok /\ Left' < Len(WifiConfigCalls(s, c)) => nvs'[SsidKey[s]] = c,
           ok /\ Left' < Len(WifiConfigCalls(s, c)) - 1 => nvs'[PasswordKey[s]] = c,
           ok /\ Left' = 0 => flash'[SsidKey[s]] = c /\ flash'[PasswordKey[s]] = c
    PROVE  InProgress'
<1>1. Len(WifiConfigCalls(s, c)) \in Nat BY WifiList
<1>2. Rest(WifiConfigCalls(s, c))' /\ (ok' <=> ok) BY <1>1, GoesOn DEF Rest
<1>3. Configuring'
  <2> SUFFICES LET total == Len(WifiConfigCalls(s, c)) IN
               /\ command'.item = Item[s] /\ command'.value = <<c, c>>
               /\ told'[Item[s]] = Unknown
               /\ Rest(WifiConfigCalls(s, c))'
               /\ ok' /\ Left' < total => nvs'[SsidKey[s]] = c
               /\ ok' /\ Left' < total - 1 => nvs'[PasswordKey[s]] = c
               /\ ok' /\ Left' = 0 => flash'[SsidKey[s]] = c /\ flash'[PasswordKey[s]] = c
      BY DEF Configuring
  <2> QED BY <1>2
<1> QED BY <1>3 DEF InProgress, Setting, Clearing, Refusing, Writing, Removing, Updating

LEMMA NvsSetStep == IInv /\ NvsSet => IInv'
<1> SUFFICES ASSUME IInv, NvsSet PROVE IInv' OBVIOUS
<1>1. /\ calls # << >> /\ This.op = "set" /\ flash' = flash /\ NvsOnly
      BY DEF NvsSet, Calling, This
<1>2. UNCHANGED <<disk, slots, boot, ignored>> /\ Elsewhere BY <1>1 DEF NvsOnly
<1>3. Shape /\ InProgress /\ Promised BY DEF IInv
<1>4. nvs \in Stores /\ flash \in Stores BY <1>3 DEF Shape, TypeOK
<1>5. CASE UNCHANGED nvs /\ GiveUp /\ Fault BY <1>1, <1>2, <1>5, GiveUpStep
<1>6. CASE nvs' = [nvs EXCEPT ![This.on] = This.value] /\ Continue /\ Fine
  <2>1. command' = command /\ told' = told BY <1>2 DEF Elsewhere
  <2>2. CASE command.name = "config-set"
    <3>1. /\ command.item \in SetKeys /\ command.value \in {"str", "blob"} \X Texts
          /\ \/ Left = 2 /\ This = SetKey(command.item, command.value)
             \/ Left = 1 /\ This = Commit
          BY <1>1, <1>3, <2>2, NextSetting
    <3>2. Left = 2 /\ This.on = command.item /\ This.value = command.value
          BY <1>1, <3>1 DEF SetKey, Commit
    <3>3. command.item \in Keys /\ command.value \in KeyValue(command.item)
          BY <3>1, ItemFacts DEF KeyValue
    <3>4. nvs' \in Stores BY <1>4, <1>6, <3>2, <3>3, StoreEdit
    <3>5. nvs'[command.item] = command.value BY <1>4, <1>6, <3>2, <3>3 DEF Stores
    <3>6. Left' = 1 BY <1>1, <1>3, <1>6, <3>2, CallMade DEF Shape, Continue
    <3>7. InProgress' BY <1>1, <1>3, <1>6, <2>1, <2>2, <3>5, <3>6, SettingGoesOn
    <3>8. ConfigKept' /\ ProfilesKept'
      <4>1. told[command.item] = Unknown BY <1>3, <2>2 DEF InProgress, Setting
      <4>2. \A s \in Slots : command.item \notin {SsidKey[s], PasswordKey[s]}
            BY <3>1, ItemFacts
      <4> QED BY <1>1, <1>3, <1>4, <1>6, <2>1, <3>2, <3>3, <4>1, <4>2, OneKey DEF Promised
    <3> QED BY <1>1, <1>4, <1>6, <3>4, <3>7, <3>8, Ends, StoreShape
           DEF IInv, Promised, Continue
  <2>3. CASE command.name = "wifi-config"
    <3>1. PICK s \in Slots, c \in Fitting :
              LET total == Len(WifiConfigCalls(s, c)) IN
              /\ command.item = Item[s] /\ command.value = <<c, c>>
              /\ told[Item[s]] = Unknown
              /\ Rest(WifiConfigCalls(s, c))
              /\ ok /\ Left < total => nvs[SsidKey[s]] = c
              /\ ok /\ Left < total - 1 => nvs[PasswordKey[s]] = c
              /\ ok /\ Left = 0 => flash[SsidKey[s]] = c /\ flash[PasswordKey[s]] = c
          BY <1>1, <1>3, <2>3 DEF InProgress, Configuring
    <3> DEFINE total == Len(WifiConfigCalls(s, c))
    <3>2. /\ total \in {3, 5} /\ Left \in 1..total
          /\ \/ Left = total /\ This = SetKey(SsidKey[s], c)
             \/ Left = total - 1 /\ This = SetKey(PasswordKey[s], c)
             \/ /\ Left \in 2..(total - 2) /\ s = 0
                /\ \E k \in {"wifi_ssid", "wifi_password"} : This = SetKey(k, c)
             \/ Left = 1 /\ This = Commit
          BY <1>1, <1>3, <3>1, NextConfiguring
    <3> HIDE DEF total
    <3>3. This.on \in WifiKeys /\ This.value = c
          BY <1>1, <3>2, ItemFacts DEF SetKey, Commit, WifiKeys
    <3>4. This.on \in Keys /\ This.value \in KeyValue(This.on)
          BY <3>3, ItemFacts DEF KeyValue, Fitting
    <3>5. nvs' \in Stores BY <1>4, <1>6, <3>4, StoreEdit
    <3>6. \A k \in Keys : nvs'[k] = IF k = This.on THEN c ELSE nvs[k]
          BY <1>4, <1>6, <3>3, <3>4 DEF Stores
    <3>7. SsidKey[s] \in Keys /\ PasswordKey[s] \in Keys BY ItemFacts
    <3>8. Left' = Left - 1 BY <1>1, <1>3, <1>6, CallMade DEF Shape, Continue
    <3>9. ok => nvs'[SsidKey[s]] = c
      <4>1. CASE Left = total
        <5>1. This.on = SsidKey[s] BY <3>2, <4>1 DEF SetKey
        <5> QED BY <3>6, <3>7, <5>1
      <4>2. CASE Left < total BY <3>1, <3>6, <3>7, <4>2 DEF total
      <4> QED BY <3>2, <4>1, <4>2
    <3>10. ok /\ Left' < total - 1 => nvs'[PasswordKey[s]] = c
      <4>1. CASE Left = total BY <3>2, <3>8, <4>1
      <4>2. CASE Left = total - 1
        <5>1. Left # total /\ Left # 1 /\ Left \notin 2..(total - 2) BY <3>2, <4>2
        <5>2. This = SetKey(PasswordKey[s], c) BY <3>2, <5>1
        <5> QED BY <3>6, <3>7, <5>2 DEF SetKey
      <4>3. CASE Left < total - 1 BY <3>1, <3>6, <3>7, <4>3 DEF total
      <4> QED BY <3>2, <4>1, <4>2, <4>3
    <3>11. Left' # 0
      <4>1. Left # 1 BY <1>1, <3>2 DEF Commit, SetKey
      <4> QED BY <3>2, <3>8, <4>1
    <3>12. InProgress'
           BY <1>1, <1>3, <1>6, <2>1, <2>3, <3>1, <3>9, <3>10, <3>11, ConfiguringGoesOn
              DEF total
    <3>13. ConfigKept' /\ ProfilesKept'
      <4>1. This.on \notin SetKeys BY <3>3, ItemFacts
      <4>2. \A t \in Slots : This.on \in {SsidKey[t], PasswordKey[t]} => t = s
            BY <1>1, <3>2 DEF SetKey, Commit, SsidKey, PasswordKey, Slots
      <4> QED BY <1>1, <1>3, <1>4, <1>6, <2>1, <3>1, <3>4, <4>1, <4>2, OneKey DEF Promised
    <3> QED BY <1>1, <1>4, <1>6, <3>5, <3>12, <3>13, Ends, StoreShape
           DEF IInv, Promised, Continue
  <2> QED BY <1>1, <1>3, <2>2, <2>3, Caller
<1> QED BY <1>5, <1>6 DEF NvsSet

LEMMA NvsEraseStep == IInv /\ NvsErase => IInv'
<1> SUFFICES ASSUME IInv, NvsErase PROVE IInv' OBVIOUS
<1>1. /\ calls # << >> /\ This.op = "erase" /\ flash' = flash /\ NvsOnly
      /\ calls' = Tail(calls)
      BY DEF NvsErase, Calling, This
<1>2. UNCHANGED <<disk, slots, boot, ignored>> /\ Elsewhere BY <1>1 DEF NvsOnly
<1>3. Shape /\ InProgress /\ Promised BY DEF IInv
<1>4. nvs \in Stores /\ flash \in Stores BY <1>3 DEF Shape, TypeOK
<1>5. ok' \in BOOLEAN /\ Left' = Left - 1
  <2>1. calls \in Seq(SomeCall) /\ ok \in BOOLEAN BY <1>3 DEF Shape, TypeOK
  <2>2. ok' = ok \/ ok' = FALSE BY DEF NvsErase
  <2>3. ok' \in BOOLEAN BY <2>1, <2>2, Zenon
  <2>4. Left' = Left - 1 BY <1>1, <2>1, CallMade
  <2> QED BY <2>3, <2>4
<1>6. command' = command /\ told' = told BY <1>2 DEF Elsewhere
<1>7. command.name = "config-clear" BY <1>1, <1>3, Caller
<1>8. \/ Left = 3 /\ This.on = "app_public_key"
      \/ Left = 2 /\ This.on = "ota_public_key"
  <2>1. \/ Left = 3 /\ This = Erase("app_public_key")
        \/ Left = 2 /\ This = Erase("ota_public_key")
        \/ Left = 1 /\ This = Commit
        BY <1>1, <1>3, <1>7, NextClearing
  <2> QED BY <1>1, <2>1 DEF Erase, Commit
<1>9. Left' # 0 BY <1>5, <1>8
<1>10. CASE nvs' = [nvs EXCEPT ![This.on] = Nil] /\ Fine
  <2>1. This.on \in Keys /\ Nil \in KeyValue(This.on)
        BY <1>8 DEF Keys, SetKeys, KeyValue
  <2>2. nvs' \in Stores BY <1>4, <1>10, <2>1, StoreEdit
  <2>3. Left' <= 1 => nvs'["ota_public_key"] = Nil
        BY <1>4, <1>5, <1>8, <1>10, <2>1 DEF Stores
  <2>4. InProgress' BY <1>1, <1>3, <1>6, <1>7, <1>9, <2>3, ClearingGoesOn
  <2>5. ConfigKept' /\ ProfilesKept'
    <3>1. told["ota_public_key"] = Unknown BY <1>3, <1>7 DEF InProgress, Clearing
    <3>2. This.on \in SetKeys => told[This.on] = Unknown BY <1>8, <3>1 DEF SetKeys
    <3>3. \A s \in Slots : This.on \notin {SsidKey[s], PasswordKey[s]}
          BY <1>8, ItemFacts DEF WifiKeys
    <3> QED BY <1>1, <1>3, <1>4, <1>6, <1>10, <2>1, <3>2, <3>3, OneKey DEF Promised
  <2> QED BY <1>1, <1>4, <1>5, <1>10, <2>2, <2>4, <2>5, StoreShape DEF IInv, Promised
<1>11. CASE nvs' = nvs /\ ~ok' /\ Fault
  <2>1. InProgress' BY <1>1, <1>3, <1>6, <1>7, <1>11, ClearingGoesOn
  <2>2. ConfigKept' /\ ProfilesKept' BY <1>1, <1>3, <1>6, <1>11, StoreFrame DEF Promised
  <2> QED BY <1>1, <1>4, <1>5, <1>11, <2>1, <2>2, StoreShape DEF IInv, Promised
<1> QED BY <1>10, <1>11 DEF NvsErase

LEMMA NvsCommitStep == IInv /\ NvsCommit => IInv'
<1> SUFFICES ASSUME IInv, NvsCommit PROVE IInv' OBVIOUS
<1>1. /\ calls # << >> /\ This.op = "commit" /\ nvs' = nvs /\ NvsOnly
      BY DEF NvsCommit, Calling, This
<1>2. UNCHANGED <<disk, slots, boot, ignored>> /\ Elsewhere BY <1>1 DEF NvsOnly
<1>3. Shape /\ InProgress /\ Promised BY DEF IInv
<1>4. nvs \in Stores /\ flash \in Stores BY <1>3 DEF Shape, TypeOK
<1>5. CASE UNCHANGED flash /\ GiveUp /\ Fault BY <1>1, <1>2, <1>5, GiveUpStep
<1>6. CASE ok /\ flash' = nvs /\ Continue /\ Fine
  <2>1. command' = command /\ told' = told BY <1>2 DEF Elsewhere
  <2>2. ConfigKept' /\ ProfilesKept'
        BY <1>1, <1>3, <1>6, <2>1 DEF Promised, ConfigKept, ProfilesKept
  <2>3. Left' = Left - 1 BY <1>1, <1>3, <1>6, CallMade DEF Shape, Continue
  <2>4. InProgress'
    <3>1. CASE command.name = "config-set"
      <4>1. Left = 1
        <5>1. \/ Left = 2 /\ This = SetKey(command.item, command.value)
              \/ Left = 1 /\ This = Commit
              BY <1>1, <1>3, <3>1, NextSetting
        <5> QED BY <1>1, <5>1 DEF SetKey
      <4>2. ok => nvs[command.item] = command.value
            BY <1>3, <3>1, <4>1 DEF InProgress, Setting
      <4> QED BY <1>1, <1>3, <1>6, <2>1, <3>1, <4>2, SettingGoesOn
    <3>2. CASE command.name = "config-clear"
      <4>1. Left = 1
        <5>1. \/ Left = 3 /\ This = Erase("app_public_key")
              \/ Left = 2 /\ This = Erase("ota_public_key")
              \/ Left = 1 /\ This = Commit
              BY <1>1, <1>3, <3>2, NextClearing
        <5> QED BY <1>1, <5>1 DEF Erase
      <4>2. ok => nvs["ota_public_key"] = Nil
            BY <1>3, <3>2, <4>1 DEF InProgress, Clearing
      <4>3. calls' = Tail(calls) BY <1>6 DEF Continue
      <4>4. nvs'["ota_public_key"] = Nil /\ flash'["ota_public_key"] = Nil
            BY <1>1, <1>6, <4>2
      <4> QED BY <1>1, <1>3, <2>1, <3>2, <4>3, <4>4, ClearingGoesOn
    <3>3. CASE command.name = "wifi-config"
      <4>1. PICK s \in Slots, c \in Fitting :
                LET total == Len(WifiConfigCalls(s, c)) IN
                /\ command.item = Item[s] /\ command.value = <<c, c>>
                /\ told[Item[s]] = Unknown
                /\ Rest(WifiConfigCalls(s, c))
                /\ ok /\ Left < total => nvs[SsidKey[s]] = c
                /\ ok /\ Left < total - 1 => nvs[PasswordKey[s]] = c
                /\ ok /\ Left = 0 => flash[SsidKey[s]] = c /\ flash[PasswordKey[s]] = c
            BY <1>1, <1>3, <3>3 DEF InProgress, Configuring
      <4> DEFINE total == Len(WifiConfigCalls(s, c))
      <4>2. /\ total \in {3, 5} /\ Left \in 1..total
            /\ \/ Left = total /\ This = SetKey(SsidKey[s], c)
               \/ Left = total - 1 /\ This = SetKey(PasswordKey[s], c)
               \/ /\ Left \in 2..(total - 2) /\ s = 0
                  /\ \E k \in {"wifi_ssid", "wifi_password"} : This = SetKey(k, c)
               \/ Left = 1 /\ This = Commit
            BY <1>1, <1>3, <4>1, NextConfiguring
      <4>3. Left = 1 BY <1>1, <4>2 DEF SetKey
      <4>4. Left < total /\ Left < total - 1 BY <4>2, <4>3
      <4>5. ok => nvs[SsidKey[s]] = c /\ nvs[PasswordKey[s]] = c BY <4>1, <4>4
      <4> QED BY <1>1, <1>3, <1>6, <2>1, <3>3, <4>1, <4>5, ConfiguringGoesOn
    <3> QED BY <1>1, <1>3, <3>1, <3>2, <3>3, Caller
  <2> QED BY <1>1, <1>4, <1>6, <2>2, <2>4, Ends, StoreShape DEF IInv, Promised, Continue
<1>7. CASE ~ok /\ UNCHANGED flash /\ Continue /\ Fine
  <2>1. command' = command /\ told' = told /\ ~ok' /\ calls' = Tail(calls)
        BY <1>2, <1>7 DEF Elsewhere, Continue
  <2>2. ConfigKept' /\ ProfilesKept' BY <1>1, <1>3, <1>7, <2>1, StoreFrame DEF Promised
  <2>3. InProgress'
    <3>1. CASE command.name = "config-set" BY <1>1, <1>3, <1>7, <2>1, <3>1, SettingGoesOn
    <3>2. CASE command.name = "config-clear" BY <1>1, <1>3, <2>1, <3>2, ClearingGoesOn
    <3>3. CASE command.name = "wifi-config"
      <4>1. PICK s \in Slots, c \in Fitting :
                /\ command.item = Item[s] /\ command.value = <<c, c>>
                /\ told[Item[s]] = Unknown
                /\ Rest(WifiConfigCalls(s, c))
            BY <1>1, <1>3, <3>3 DEF InProgress, Configuring
      <4> QED BY <1>1, <1>3, <1>7, <2>1, <3>3, <4>1, ConfiguringGoesOn
    <3> QED BY <1>1, <1>3, <3>1, <3>2, <3>3, Caller
  <2> QED BY <1>1, <1>4, <1>7, <2>1, <2>2, <2>3, Ends, StoreShape DEF IInv, Promised
<1> QED BY <1>5, <1>6, <1>7 DEF NvsCommit

-----------------------------------------------------------------------------
(* The calls on files                                                      *)

\* A call that changes files and goes on keeps everything else.
LEMMA FileShape ==
    ASSUME IInv, calls # << >>, Fine \/ Fault, FilesOnly, calls' \in Seq(SomeCall),
           ok' \in BOOLEAN, ignored' \in BOOLEAN,
           disk' \in [Paths -> Contents \cup {Nil, Empty}]
    PROVE  Shape' /\ ConfigKept' /\ ProfilesKept' /\ UpdateKept' /\ SlotsKept'
<1> USE DEF IInv
<1>1. /\ Elsewhere /\ UNCHANGED <<nvs, flash, slots, boot>> BY DEF FilesOnly, store
<1>2. Shape'
  <2>1. faults' \in 0..MaxFaults BY Counted
  <2>2. /\ nvs' \in Stores /\ flash' \in Stores
        /\ slots' \in [Slots -> Images \cup {Factory, Empty}] /\ boot' \in Slots
        BY <1>1 DEF Shape, TypeOK
  <2> QED BY <1>1, <2>1, <2>2, CallShape
<1> QED BY <1>1, <1>2, StoreFrame, SlotsFrame DEF Promised, Elsewhere

\* What a path nothing was promised of holds is of no consequence, a name that
\* is some upload's temporary one included.
LEMMA OnePath ==
    ASSUME UploadKept, UploadWhole, NEW q \in Paths, disk \in [Paths -> Contents \cup {Nil, Empty}],
           \A p \in Paths \ {q} : disk'[p] = disk[p], told' = told, ~ignored' => ~ignored,
           told[q] = Unknown,
           ~ignored' /\ q \in Files /\ (\A g \in Files : Temp[g] # q) => disk'[q] # Empty
    PROVE  UploadKept' /\ UploadWhole'
<1>1. UploadKept' BY DEF UploadKept
<1>2. UploadWhole' BY ItemFacts DEF UploadWhole
<1> QED BY <1>1, <1>2

LEMMA WritingGoesOn ==
    ASSUME Shape, InProgress, calls # << >>, Continue, UNCHANGED <<command, told>>,
           command.name = "fs-write", ~ignored' => ~ignored,
           (ok /\ Left' = 0) \/ disk'[command.item] = disk[command.item],
           ~ignored' /\ ok /\ Left' = 1 => disk'[Temp[command.item]] = command.value,
           ~ignored' /\ ok /\ Left' = 0 => disk'[command.item] = command.value
    PROVE  InProgress'
<1> DEFINE f == command.item
<1>0. Left # 0 BY DEF Shape, Left
<1>1. /\ f \in Files /\ command.value \in Contents /\ told[f] = Unknown
      /\ told[Temp[f]] = Unknown /\ command.was \in Promises
      /\ ~ignored /\ command.was # Unknown /\ (ok => Left # 0) => disk[f] = command.was
      BY DEF InProgress, Writing
<1>2. ok' <=> ok BY DEF Continue
<1>3. ok => Rest(FsWriteCalls(f, command.value))'
  <2> SUFFICES ASSUME ok PROVE Rest(FsWriteCalls(f, command.value))' OBVIOUS
  <2> DEFINE list == FsWriteCalls(f, command.value)
  <2>1. Rest(list) BY DEF InProgress, Writing
  <2>2. Len(list) \in Nat BY DEF FsWriteCalls
  <2>3. list' = list BY DEF FsWriteCalls, Open, Write, Close, Rename
  <2> HIDE DEF list
  <2>4. Rest(list)' BY <2>1, <2>2, <2>3, GoesOn DEF Rest
  <2> QED BY <2>4 DEF list
<1>4. ~ok => Rest(<<Close(Temp[f], Nil), Remove(Temp[f])>>)'
  <2> SUFFICES ASSUME ~ok PROVE Rest(<<Close(Temp[f], Nil), Remove(Temp[f])>>)' OBVIOUS
  <2> DEFINE list == <<Close(Temp[f], Nil), Remove(Temp[f])>>
  <2>1. Rest(list) BY DEF InProgress, Writing
  <2>2. Len(list) \in Nat OBVIOUS
  <2>3. list' = list OBVIOUS
  <2> HIDE DEF list
  <2>4. Rest(list)' BY <2>1, <2>2, <2>3, GoesOn DEF Rest
  <2> QED BY <2>4 DEF list
<1>5. ~ignored' => /\ command.was # Unknown /\ (ok' => Left' # 0) => disk'[f] = command.was
                   /\ ok' /\ Left' = 1 => disk'[Temp[f]] = command.value
                   /\ ok' /\ Left' = 0 => disk'[f] = command.value
      BY <1>0, <1>1, <1>2
<1>6. Writing'
  <2> SUFFICES /\ f' \in Files /\ command'.value \in Contents
               /\ told'[f'] = Unknown /\ told'[Temp[f']] = Unknown /\ command'.was \in Promises
               /\ ok' => Rest(FsWriteCalls(f, command.value))'
               /\ ~ok' => Rest(<<Close(Temp[f], Nil), Remove(Temp[f])>>)'
               /\ ~ignored' =>
                   /\ command'.was # Unknown /\ (ok' => Left' # 0) => disk'[f'] = command'.was
                   /\ ok' /\ Left' = 1 => disk'[Temp[f']] = command'.value
                   /\ ok' /\ Left' = 0 => disk'[f'] = command'.value
      BY DEF Writing
  <2> QED BY <1>1, <1>2, <1>3, <1>4, <1>5
<1> QED BY <1>6 DEF InProgress, Setting, Clearing, Configuring, Refusing, Removing, Updating

\* The facts of an upload in progress that its calls use.
LEMMA Uploading ==
    ASSUME IInv, calls # << >>, command.name = "fs-write", NEW f, f = command.item
    PROVE  /\ f \in Files /\ f \in Paths /\ Temp[f] \in Paths /\ Temp[f] # f
           /\ told[f] = Unknown /\ told[Temp[f]] = Unknown
           /\ command.value \in Contents /\ command.value \notin {Nil, Empty}
           /\ disk \in [Paths -> Contents \cup {Nil, Empty}] /\ ignored \in BOOLEAN
           /\ calls \in Seq(SomeCall) /\ UploadKept /\ UploadWhole
           /\ ~ignored /\ ok /\ Left = 1 => disk[Temp[f]] = command.value
<1>1. /\ f \in Files /\ command.value \in Contents
      /\ told[f] = Unknown /\ told[Temp[f]] = Unknown
      /\ ~ignored /\ ok /\ Left = 1 => disk[Temp[f]] = command.value
      BY DEF IInv, InProgress, Writing
<1>2. command.value \notin {Nil, Empty} BY <1>1, StorageAssumption
<1>3. disk \in [Paths -> Contents \cup {Nil, Empty}] /\ calls \in Seq(SomeCall)
      BY DEF IInv, Shape, TypeOK
<1>4. ignored \in BOOLEAN BY DEF IInv, Shape, TypeOK
<1> QED BY <1>1, <1>2, <1>3, <1>4, ItemFacts DEF IInv, Promised

LEMMA OpenFileStep == IInv /\ OpenFile => IInv'
<1> SUFFICES ASSUME IInv, OpenFile PROVE IInv' OBVIOUS
<1> DEFINE f == command.item
<1>1. /\ calls # << >> /\ This.op = "open" /\ ignored' = ignored /\ FilesOnly
      BY DEF OpenFile, Calling, This
<1>2. UNCHANGED <<nvs, flash, slots, boot>> /\ Elsewhere BY <1>1 DEF FilesOnly, store
<1>3. Shape /\ InProgress /\ Promised BY DEF IInv
<1>4. CASE UNCHANGED disk /\ GiveUp /\ Fault BY <1>1, <1>2, <1>4, GiveUpStep
<1>5. CASE /\ disk' = [disk EXCEPT ![This.on] = IF @ = Nil THEN Empty ELSE @]
           /\ Continue /\ Fine
  <2>1. command' = command /\ told' = told BY <1>2 DEF Elsewhere
  <2>2. command.name = "fs-write" BY <1>1, <1>3, Caller
  <2>3. ok /\ Left = 4 /\ This = Open(Temp[f])
        BY <1>1, <1>3, <2>2, NextWriting DEF Write, Close, Rename, Remove
  <2>4. /\ f \in Files /\ f \in Paths /\ Temp[f] \in Paths /\ Temp[f] # f
        /\ told[Temp[f]] = Unknown /\ disk \in [Paths -> Contents \cup {Nil, Empty}]
        /\ calls \in Seq(SomeCall) /\ UploadKept /\ UploadWhole
        BY <1>1, <2>2, Uploading
  <2>5. This.on = Temp[f] BY <2>3 DEF Open
  <2>6. /\ disk' \in [Paths -> Contents \cup {Nil, Empty}]
        /\ \A p \in Paths \ {Temp[f]} : disk'[p] = disk[p]
        BY <1>5, <2>4, <2>5
  <2>7. Left' = 3 BY <1>1, <1>5, <2>3, <2>4, CallMade DEF Continue
  <2>8. InProgress'
        BY <1>1, <1>3, <1>5, <2>1, <2>2, <2>4, <2>6, <2>7, WritingGoesOn
  <2>9. UploadKept' /\ UploadWhole' BY <1>1, <2>1, <2>4, <2>6, OnePath
  <2>10. calls' \in Seq(SomeCall) /\ ok' \in BOOLEAN BY <1>1, <1>3, <1>5, Ends
  <2>11. ignored' \in BOOLEAN BY <1>1, <1>3 DEF Shape, TypeOK
  <2>12. Shape' /\ ConfigKept' /\ ProfilesKept' /\ UpdateKept' /\ SlotsKept'
         BY <1>1, <1>5, <2>6, <2>10, <2>11, FileShape
  <2> QED BY <2>8, <2>9, <2>12 DEF IInv, Promised
<1> QED BY <1>4, <1>5 DEF OpenFile

LEMMA WriteFileStep == IInv /\ WriteFile => IInv'
<1> SUFFICES ASSUME IInv, WriteFile PROVE IInv' OBVIOUS
<1> DEFINE f == command.item
<1>1. /\ calls # << >> /\ This.op = "write" /\ disk' = disk /\ ignored' = ignored /\ FilesOnly
      BY DEF WriteFile, Calling, This
<1>2. UNCHANGED <<nvs, flash, slots, boot>> /\ Elsewhere BY <1>1 DEF FilesOnly, store
<1>3. Shape /\ InProgress /\ Promised BY DEF IInv
<1>4. command' = command /\ told' = told BY <1>2 DEF Elsewhere
<1>5. command.name = "fs-write" BY <1>1, <1>3, Caller
<1>6. ok /\ Left = 3 /\ This = Write(Temp[f], command.value)
      BY <1>1, <1>3, <1>5, NextWriting DEF Open, Close, Rename, Remove
<1>7. /\ f \in Files /\ Temp[f] \in Paths /\ told[f] = Unknown /\ told[Temp[f]] = Unknown
      /\ command.value \in Contents /\ disk \in [Paths -> Contents \cup {Nil, Empty}]
      /\ calls \in Seq(SomeCall) /\ UploadKept /\ UploadWhole
      BY <1>1, <1>5, Uploading
<1>8. UploadKept' /\ UploadWhole' BY <1>1, <1>4, <1>7, FilesFrame
<1>9. ignored' \in BOOLEAN BY <1>1, <1>3 DEF Shape, TypeOK
<1>10. CASE Continue /\ Fine
  <2>1. Left' = 2 BY <1>1, <1>6, <1>7, <1>10, CallMade DEF Continue
  <2>2. InProgress' BY <1>1, <1>3, <1>4, <1>5, <1>10, <2>1, WritingGoesOn
  <2>3. calls' \in Seq(SomeCall) /\ ok' \in BOOLEAN BY <1>1, <1>3, <1>10, Ends
  <2>4. Shape' /\ ConfigKept' /\ ProfilesKept' /\ UpdateKept' /\ SlotsKept'
        BY <1>1, <1>7, <1>9, <1>10, <2>3, FileShape
  <2> QED BY <1>8, <2>2, <2>4 DEF IInv, Promised
<1>11. CASE /\ calls' = <<Close(This.on, Nil), Remove(This.on)>>
            /\ ok' = FALSE /\ Fault
  <2> DEFINE list == <<Close(Temp[f], Nil), Remove(Temp[f])>>
  <2>1. calls' = list BY <1>6, <1>11 DEF Write
  <2>2. list \in Seq(SomeCall) BY <1>7, SomeCalls
  <2>3. list' = list BY <1>4
  <2>4. Left' = 2 /\ Rest(list)'
    <3>1. Len(list) = 2 /\ \A i \in 1..2 : list[i] = list[2 - 2 + i] OBVIOUS
    <3> HIDE DEF list
    <3>2. Left' = 2 BY <2>1, <3>1 DEF Left
    <3> QED BY <2>1, <2>3, <3>1, <3>2 DEF Rest
  <2> HIDE DEF list
  <2>5. ~ignored' => (command.was # Unknown => disk[f] = command.was)
        BY <1>1, <1>3, <1>5, <1>6 DEF InProgress, Writing
  <2>6. command.was \in Promises BY <1>3, <1>5 DEF InProgress, Writing
  <2>7. ~ok' BY <1>11
  <2>8. Writing'
        BY <1>1, <1>4, <1>7, <2>4, <2>5, <2>6, <2>7 DEF Writing, list
  <2>9. InProgress'
        BY <1>4, <1>5, <2>8 DEF InProgress, Setting, Clearing, Configuring, Refusing, Removing,
                                Updating
  <2>10. calls' \in Seq(SomeCall) BY <2>1, <2>2
  <2>11. ok' \in BOOLEAN BY <1>11
  <2>12. Shape' /\ ConfigKept' /\ ProfilesKept' /\ UpdateKept' /\ SlotsKept'
         BY <1>1, <1>7, <1>9, <1>11, <2>10, <2>11, FileShape
  <2> QED BY <1>8, <2>9, <2>12 DEF IInv, Promised
<1> QED BY <1>10, <1>11 DEF WriteFile

LEMMA CloseFileStep == IInv /\ CloseFile => IInv'
<1> SUFFICES ASSUME IInv, CloseFile PROVE IInv' OBVIOUS
<1> DEFINE f == command.item
<1>1. /\ calls # << >> /\ This.op = "close" /\ Continue /\ FilesOnly
      BY DEF CloseFile, Calling, This
<1>2. UNCHANGED <<nvs, flash, slots, boot>> /\ Elsewhere BY <1>1 DEF FilesOnly, store
<1>3. Shape /\ InProgress /\ Promised BY DEF IInv
<1>4. command' = command /\ told' = told BY <1>2 DEF Elsewhere
<1>5. command.name = "fs-write" BY <1>1, <1>3, Caller
<1>6. /\ Left = 2 /\ This.on = Temp[f]
      /\ ok => This.value = command.value
      /\ ~ok => This.value = Nil
  <2>1. CASE ok
    <3>1. Left = 2 /\ This = Close(Temp[f], command.value)
          BY <1>1, <1>3, <1>5, <2>1, NextWriting DEF Open, Write, Rename
    <3> QED BY <2>1, <3>1 DEF Close
  <2>2. CASE ~ok
    <3>1. Left = 2 /\ This = Close(Temp[f], Nil)
          BY <1>1, <1>3, <1>5, <2>2, NextWriting DEF Remove
    <3> QED BY <2>2, <3>1 DEF Close
  <2> QED BY <2>1, <2>2
<1>7. /\ f \in Files /\ f \in Paths /\ Temp[f] \in Paths /\ Temp[f] # f
      /\ told[Temp[f]] = Unknown /\ command.value \in Contents
      /\ command.value \notin {Nil, Empty}
      /\ disk \in [Paths -> Contents \cup {Nil, Empty}]
      /\ calls \in Seq(SomeCall) /\ UploadKept /\ UploadWhole
      BY <1>1, <1>5, Uploading
<1>8. ignored \in BOOLEAN BY <1>3 DEF Shape, TypeOK
<1>9. ignored' \in BOOLEAN /\ (~ignored' => ~ignored)
  <2>1. ignored' = ignored \/ ignored' = (ignored \/ This.value # Nil) BY DEF CloseFile
  <2> QED BY <1>8, <2>1
<1>10. ~ignored' /\ ok => disk' = [disk EXCEPT ![Temp[f]] = command.value]
  <2>1. ASSUME ~ignored', ok PROVE disk' = [disk EXCEPT ![Temp[f]] = command.value]
    <3>1. This.value # Nil /\ This.value = command.value BY <1>6, <1>7, <2>1
    <3>2. ~(ignored' = (ignored \/ This.value # Nil)) BY <2>1, <3>1
    <3> QED BY <1>6, <3>1, <3>2 DEF CloseFile
  <2> QED BY <2>1
<1>11. disk' = disk \/ (ok /\ disk' = [disk EXCEPT ![Temp[f]] = command.value])
      BY <1>6 DEF CloseFile
<1>12. /\ disk' \in [Paths -> Contents \cup {Nil, Empty}]
       /\ \A p \in Paths \ {Temp[f]} : disk'[p] = disk[p]
      BY <1>7, <1>11
<1>13. Left' = 1 BY <1>1, <1>6, <1>7, CallMade DEF Continue
<1>14. ~ignored' /\ ok => disk'[Temp[f]] = command.value BY <1>7, <1>10
<1>15. InProgress'
  <2>1. disk'[f] = disk[f] BY <1>7, <1>12
  <2> QED BY <1>1, <1>3, <1>4, <1>5, <1>9, <1>13, <1>14, <2>1, WritingGoesOn
<1>16. UploadKept' /\ UploadWhole' BY <1>4, <1>7, <1>9, <1>12, OnePath
<1>17. calls' \in Seq(SomeCall) /\ ok' \in BOOLEAN BY <1>1, <1>3, Ends
<1>18. Fine \/ Fault BY DEF CloseFile
<1>19. Shape' /\ ConfigKept' /\ ProfilesKept' /\ UpdateKept' /\ SlotsKept'
       BY <1>1, <1>9, <1>12, <1>17, <1>18, FileShape
<1> QED BY <1>15, <1>16, <1>19 DEF IInv, Promised

LEMMA RenameFileStep == IInv /\ RenameFile => IInv'
<1> SUFFICES ASSUME IInv, RenameFile PROVE IInv' OBVIOUS
<1> DEFINE f == command.item
<1>1. /\ calls # << >> /\ This.op = "rename" /\ Continue /\ FilesOnly
      BY DEF RenameFile, Calling, This
<1>2. UNCHANGED <<nvs, flash, slots, boot>> /\ Elsewhere BY <1>1 DEF FilesOnly, store
<1>3. Shape /\ InProgress /\ Promised BY DEF IInv
<1>4. command' = command /\ told' = told BY <1>2 DEF Elsewhere
<1>5. command.name = "fs-write" BY <1>1, <1>3, Caller
<1>6. ok /\ Left = 1 /\ This = Rename(Temp[f], f)
  <2>1. CASE ok BY <1>1, <1>3, <1>5, <2>1, NextWriting DEF Open, Write, Close
  <2>2. CASE ~ok
    <3>1. This = Close(Temp[f], Nil) \/ This = Remove(Temp[f])
          BY <1>1, <1>3, <1>5, <2>2, NextWriting
    <3> QED BY <1>1, <3>1 DEF Close, Remove
  <2> QED BY <2>1, <2>2
<1>7. /\ f \in Files /\ f \in Paths /\ Temp[f] \in Paths /\ Temp[f] # f
      /\ told[f] = Unknown /\ told[Temp[f]] = Unknown
      /\ command.value \in Contents /\ command.value \notin {Nil, Empty}
      /\ disk \in [Paths -> Contents \cup {Nil, Empty}]
      /\ calls \in Seq(SomeCall) /\ UploadKept /\ UploadWhole
      /\ ~ignored => disk[Temp[f]] = command.value
      BY <1>1, <1>5, <1>6, Uploading
<1>8. This.on = Temp[f] /\ This.value = f BY <1>6 DEF Rename
<1>9. ignored \in BOOLEAN BY <1>3 DEF Shape, TypeOK
<1>10. ignored' \in BOOLEAN /\ (~ignored' => ~ignored)
  <2>1. ignored' = ignored \/ ignored' = TRUE BY DEF RenameFile
  <2> QED BY <1>9, <2>1
<1>11. Left' = 0 BY <1>1, <1>6, <1>7, CallMade DEF Continue
<1>12. \/ disk' = [disk EXCEPT ![f] = disk[Temp[f]], ![Temp[f]] = Nil]
       \/ disk' = disk /\ ignored'
      BY <1>8 DEF RenameFile
<1>13. /\ disk' \in [Paths -> Contents \cup {Nil, Empty}]
       /\ \A p \in Paths \ {f, Temp[f]} : disk'[p] = disk[p]
       /\ ~ignored' => disk'[f] = command.value
      BY <1>7, <1>10, <1>12
<1>14. InProgress' BY <1>1, <1>3, <1>4, <1>5, <1>6, <1>10, <1>11, <1>13, WritingGoesOn
<1>15. UploadKept' BY <1>4, <1>7, <1>10, <1>13 DEF UploadKept
<1>16. UploadWhole' BY <1>7, <1>10, <1>13, ItemFacts DEF UploadWhole
<1>17. calls' \in Seq(SomeCall) /\ ok' \in BOOLEAN BY <1>1, <1>3, Ends
<1>18. Fine \/ Fault BY DEF RenameFile
<1>19. Shape' /\ ConfigKept' /\ ProfilesKept' /\ UpdateKept' /\ SlotsKept'
       BY <1>1, <1>10, <1>13, <1>17, <1>18, FileShape
<1> QED BY <1>14, <1>15, <1>16, <1>19 DEF IInv, Promised

LEMMA RemoveFileStep == IInv /\ RemoveFile => IInv'
<1> SUFFICES ASSUME IInv, RemoveFile PROVE IInv' OBVIOUS
<1> DEFINE f == command.item
<1>1. /\ calls # << >> /\ This.op = "remove" /\ ignored' = ignored /\ FilesOnly
      BY DEF RemoveFile, Calling, This
<1>2. UNCHANGED <<nvs, flash, slots, boot>> /\ Elsewhere BY <1>1 DEF FilesOnly, store
<1>3. Shape /\ InProgress /\ Promised BY DEF IInv
<1>4. command' = command /\ told' = told BY <1>2 DEF Elsewhere
<1>5. CASE UNCHANGED disk /\ GiveUp /\ (Fault \/ Fine) BY <1>1, <1>2, <1>5, GiveUpStep
<1>6. CASE disk' = [disk EXCEPT ![This.on] = Nil] /\ Continue /\ Fine
  <2>1. disk \in [Paths -> Contents \cup {Nil, Empty}] /\ calls \in Seq(SomeCall)
        BY <1>3 DEF Shape, TypeOK
  <2>2. calls' \in Seq(SomeCall) /\ ok' \in BOOLEAN BY <1>1, <1>3, <1>6, Ends
  <2>3. ignored' \in BOOLEAN BY <1>1, <1>3 DEF Shape, TypeOK
  <2>4. CASE command.name = "fs-write"
    <3>1. ~ok /\ This.on = Temp[f]
      <4>1. CASE ok
        <5>1. \/ This = Open(Temp[f]) \/ This = Write(Temp[f], command.value)
              \/ This = Close(Temp[f], command.value) \/ This = Rename(Temp[f], f)
              BY <1>1, <1>3, <2>4, <4>1, NextWriting
        <5> QED BY <1>1, <5>1 DEF Open, Write, Close, Rename
      <4>2. CASE ~ok
        <5>1. This = Close(Temp[f], Nil) \/ This = Remove(Temp[f])
              BY <1>1, <1>3, <2>4, <4>2, NextWriting
        <5> QED BY <1>1, <4>2, <5>1 DEF Close, Remove
      <4> QED BY <4>1, <4>2
    <3>2. /\ f \in Files /\ f \in Paths /\ Temp[f] \in Paths /\ Temp[f] # f
          /\ told[Temp[f]] = Unknown /\ UploadKept /\ UploadWhole
          BY <1>1, <2>4, Uploading
    <3>3. /\ disk' \in [Paths -> Contents \cup {Nil, Empty}]
          /\ \A p \in Paths \ {Temp[f]} : disk'[p] = disk[p]
          BY <1>6, <2>1, <3>1, <3>2
    <3>4. InProgress'
          BY <1>1, <1>3, <1>4, <1>6, <2>4, <3>1, <3>2, <3>3, WritingGoesOn
    <3>5. UploadKept' /\ UploadWhole' BY <1>1, <1>4, <2>1, <3>2, <3>3, OnePath
    <3>6. Shape' /\ ConfigKept' /\ ProfilesKept' /\ UpdateKept' /\ SlotsKept'
          BY <1>1, <1>6, <2>2, <2>3, <3>3, FileShape
    <3> QED BY <3>4, <3>5, <3>6 DEF IInv, Promised
  <2>5. CASE command.name = "fs-remove"
    <3>1. f \in Files /\ Left = 1 /\ ok /\ This = Remove(f)
          BY <1>1, <1>3, <2>5, NextRemoving
    <3>2. /\ f \in Paths /\ told[f] = Unknown /\ command.was \in Promises
          /\ command.value = Nil
          BY <1>3, <2>5, <3>1, ItemFacts DEF InProgress, Removing
    <3>3. This.on = f BY <3>1 DEF Remove
    <3>4. /\ disk' \in [Paths -> Contents \cup {Nil, Empty}]
          /\ \A p \in Paths \ {f} : disk'[p] = disk[p]
          /\ disk'[f] = Nil
          BY <1>6, <2>1, <3>2, <3>3
    <3>5. Left' = 0 BY <1>1, <1>6, <2>1, <3>1, CallMade DEF Continue
    <3>6. Rest(<<Remove(f)>>)'
      <4>1. Len(<<Remove(f)>>)' = 1 OBVIOUS
      <4> QED BY <3>5, <4>1 DEF Rest
    <3>7. ok' <=> ok BY <1>6 DEF Continue
    <3>8. Removing' BY <1>4, <3>1, <3>2, <3>4, <3>5, <3>6, <3>7 DEF Removing
    <3>9. InProgress'
          BY <1>4, <2>5, <3>8 DEF InProgress, Setting, Clearing, Configuring, Refusing, Writing,
                                  Updating
    <3>10. UploadKept' /\ UploadWhole'
      <4>1. disk'[f] # Empty BY <3>4, StorageAssumption
      <4>2. UploadKept /\ UploadWhole BY <1>3 DEF Promised
      <4> QED BY <1>1, <1>4, <2>1, <3>2, <3>4, <4>1, <4>2, OnePath
    <3>11. Shape' /\ ConfigKept' /\ ProfilesKept' /\ UpdateKept' /\ SlotsKept'
           BY <1>1, <1>6, <2>2, <2>3, <3>4, FileShape
    <3> QED BY <3>9, <3>10, <3>11 DEF IInv, Promised
  <2> QED BY <1>1, <1>3, <2>4, <2>5, Caller
<1> QED BY <1>5, <1>6 DEF RemoveFile

-----------------------------------------------------------------------------
(* The calls on slots                                                      *)

LEMMA TargetFacts ==
    ASSUME Shape
    PROVE  Target \in Slots /\ Target # running /\ \A s \in Slots : s = Target \/ s = running
BY DEF Shape, TypeOK, Target, Other, Slots

\* A call of an update that goes on keeps everything but the slots.
LEMMA SlotShape ==
    ASSUME IInv, calls # << >>, Continue, Fine, SlotsOnly,
           slots' \in [Slots -> Images \cup {Factory, Empty}], boot' \in Slots
    PROVE  /\ Shape' /\ ConfigKept' /\ ProfilesKept' /\ UploadKept' /\ UploadWhole'
           /\ UNCHANGED <<command, told, running, approved>>
<1> USE DEF IInv
<1>1. /\ Elsewhere /\ UNCHANGED <<nvs, flash, disk, ignored>> BY DEF SlotsOnly, store
<1>2. Shape'
  <2>1. faults' \in 0..MaxFaults BY Counted
  <2>2. calls' \in Seq(SomeCall) /\ ok' \in BOOLEAN BY Ends
  <2>3. /\ nvs' \in Stores /\ flash' \in Stores /\ disk' \in [Paths -> Contents \cup {Nil, Empty}]
        BY <1>1 DEF Shape, TypeOK
  <2>4. ignored' \in BOOLEAN BY <1>1 DEF Shape, TypeOK
  <2> QED BY <1>1, <2>1, <2>2, <2>3, <2>4, CallShape
<1> QED BY <1>1, <1>2, StoreFrame, FilesFrame DEF Promised, Elsewhere

LEMMA UpdatingGoesOn ==
    ASSUME Shape, InProgress, calls # << >>, Continue,
           UNCHANGED <<command, told, running, approved>>, command.name = "ota",
           Left' <= 2 => slots'[Target] = command.value,
           Left' <= 1 => Whole(command.value),
           Left' = 0 => boot' = Target
    PROVE  InProgress'
<1>1. calls # << >> /\ Left # 0 BY DEF Shape, Left
<1>2. ok /\ command.value \in Images \cap approved /\ command.item = "ota"
      /\ told["ota"] = Unknown
      BY <1>1 DEF InProgress, Updating
<1>3. ok' BY <1>2 DEF Continue
<1>4. Rest(OtaCalls(command.value))'
  <2> DEFINE list == OtaCalls(command.value)
  <2>1. Rest(list) BY <1>2 DEF InProgress, Updating
  <2>2. Len(list) \in Nat BY DEF OtaCalls
  <2>3. list' = list BY DEF OtaCalls, OtaBegin, OtaWrite, OtaEnd, OtaSelect
  <2> HIDE DEF list
  <2>4. Rest(list)' BY <2>1, <2>2, <2>3, GoesOn DEF Rest
  <2> QED BY <2>4 DEF list
<1>5. Target' = Target /\ (Whole(command.value)' <=> Whole(command.value)) BY DEF Target, Whole
<1>6. Updating' BY <1>2, <1>3, <1>4, <1>5 DEF Updating
<1> QED BY <1>6 DEF InProgress, Setting, Clearing, Configuring, Refusing, Writing, Removing

\* The facts of an update in progress that its calls use.
LEMMA Applying ==
    ASSUME IInv, calls # << >>,
           This.op \in {"ota-begin", "ota-write", "ota-end", "ota-select"}
    PROVE  /\ command.name = "ota" /\ command.value \in Images \cap approved
           /\ told["ota"] = Unknown
           /\ Left <= 2 => slots[Target] = command.value
           /\ Left <= 1 => Whole(command.value)
           /\ This.op = "ota-begin" => Left = 4
           /\ This.op = "ota-write" => Left = 3 /\ This.value = command.value
           /\ This.op = "ota-end" => Left = 2
           /\ This.op = "ota-select" => Left = 1
           /\ Left' = Left - 1 \/ calls' # Tail(calls)
           /\ slots \in [Slots -> Images \cup {Factory, Empty}] /\ boot \in Slots
           /\ UpdateKept /\ SlotsKept
<1> USE DEF IInv
<1>1. command.name = "ota" BY Caller
<1>2. /\ ok /\ command.value \in Images \cap approved
      /\ \/ Left = 4 /\ This = OtaBegin
         \/ Left = 3 /\ This = OtaWrite(command.value)
         \/ Left = 2 /\ This = OtaEnd
         \/ Left = 1 /\ This = OtaSelect
      BY <1>1, NextUpdating
<1>3. /\ told["ota"] = Unknown
      /\ Left <= 2 => slots[Target] = command.value
      /\ Left <= 1 => Whole(command.value)
      BY <1>1, <1>2 DEF InProgress, Updating
<1>4. /\ This.op = "ota-begin" => Left = 4
      /\ This.op = "ota-write" => Left = 3 /\ This.value = command.value
      /\ This.op = "ota-end" => Left = 2
      /\ This.op = "ota-select" => Left = 1
      BY <1>2 DEF OtaBegin, OtaWrite, OtaEnd, OtaSelect
<1>5. Left' = Left - 1 \/ calls' # Tail(calls) BY CallMade DEF Shape
<1>6. slots \in [Slots -> Images \cup {Factory, Empty}] /\ boot \in Slots BY DEF Shape, TypeOK
<1> QED BY <1>1, <1>2, <1>3, <1>4, <1>5, <1>6 DEF Promised

LEMMA EraseSlotStep == IInv /\ EraseSlot => IInv'
<1> SUFFICES ASSUME IInv, EraseSlot PROVE IInv' OBVIOUS
<1>1. /\ calls # << >> /\ This.op = "ota-begin" /\ boot' = boot /\ SlotsOnly
      BY DEF EraseSlot, Calling, This
<1>2. UNCHANGED <<nvs, flash, disk, ignored>> /\ Elsewhere BY <1>1 DEF SlotsOnly, store
<1>3. Shape /\ InProgress /\ Promised BY DEF IInv
<1>4. CASE UNCHANGED slots /\ GiveUp /\ Fault BY <1>1, <1>2, <1>4, GiveUpStep
<1>5. CASE slots' = [slots EXCEPT ![Target] = Empty] /\ Continue /\ Fine
  <2>1. /\ command.name = "ota" /\ told["ota"] = Unknown /\ Left = 4 /\ Left' = 3
        /\ slots \in [Slots -> Images \cup {Factory, Empty}] /\ boot \in Slots /\ SlotsKept
        BY <1>1, <1>5, Applying DEF Continue
  <2>2. Target \in Slots /\ Target # running BY <1>3, TargetFacts
  <2>3. slots' \in [Slots -> Images \cup {Factory, Empty}] /\ boot' \in Slots
        BY <1>1, <1>5, <2>1, <2>2
  <2>4. /\ Shape' /\ ConfigKept' /\ ProfilesKept' /\ UploadKept' /\ UploadWhole'
        /\ UNCHANGED <<command, told, running, approved>>
        BY <1>1, <1>5, <2>3, SlotShape
  <2>5. InProgress' BY <1>1, <1>3, <1>5, <2>1, <2>4, UpdatingGoesOn
  <2>6. UpdateKept' BY <2>1, <2>4 DEF UpdateKept
  <2>7. running \in Slots BY <1>3 DEF Shape, TypeOK
  <2>8. SlotsKept' BY <1>5, <2>1, <2>2, <2>4, <2>7 DEF SlotsKept
  <2> QED BY <2>4, <2>5, <2>6, <2>8 DEF IInv, Promised
<1> QED BY <1>4, <1>5 DEF EraseSlot

LEMMA WriteSlotStep == IInv /\ WriteSlot => IInv'
<1> SUFFICES ASSUME IInv, WriteSlot PROVE IInv' OBVIOUS
<1>1. /\ calls # << >> /\ This.op = "ota-write" /\ boot' = boot /\ SlotsOnly
      BY DEF WriteSlot, Calling, This
<1>2. UNCHANGED <<nvs, flash, disk, ignored>> /\ Elsewhere BY <1>1 DEF SlotsOnly, store
<1>3. Shape /\ InProgress /\ Promised BY DEF IInv
<1>4. CASE UNCHANGED slots /\ GiveUp /\ Fault BY <1>1, <1>2, <1>4, GiveUpStep
<1>5. CASE slots' = [slots EXCEPT ![Target] = This.value] /\ Continue /\ Fine
  <2>1. /\ command.name = "ota" /\ told["ota"] = Unknown /\ Left = 3 /\ Left' = 2
        /\ This.value = command.value /\ command.value \in Images \cap approved
        /\ slots \in [Slots -> Images \cup {Factory, Empty}] /\ boot \in Slots /\ SlotsKept
        BY <1>1, <1>5, Applying DEF Continue
  <2>2. Target \in Slots /\ Target # running BY <1>3, TargetFacts
  <2>3. /\ slots' \in [Slots -> Images \cup {Factory, Empty}] /\ boot' \in Slots
        /\ slots'[Target] = command.value
        BY <1>1, <1>5, <2>1, <2>2
  <2>4. /\ Shape' /\ ConfigKept' /\ ProfilesKept' /\ UploadKept' /\ UploadWhole'
        /\ UNCHANGED <<command, told, running, approved>>
        BY <1>1, <1>5, <2>3, SlotShape
  <2>5. InProgress' BY <1>1, <1>3, <1>5, <2>1, <2>3, <2>4, UpdatingGoesOn
  <2>6. UpdateKept' BY <2>1, <2>4 DEF UpdateKept
  <2>7. running \in Slots BY <1>3 DEF Shape, TypeOK
  <2>8. SlotsKept' BY <1>5, <2>1, <2>2, <2>3, <2>4, <2>7 DEF SlotsKept
  <2> QED BY <2>4, <2>5, <2>6, <2>8 DEF IInv, Promised
<1> QED BY <1>4, <1>5 DEF WriteSlot

LEMMA CheckSlotStep == IInv /\ CheckSlot => IInv'
<1> SUFFICES ASSUME IInv, CheckSlot PROVE IInv' OBVIOUS
<1>1. /\ calls # << >> /\ This.op = "ota-end" /\ boot' = boot /\ slots' = slots /\ SlotsOnly
      BY DEF CheckSlot, Calling, This
<1>2. UNCHANGED <<nvs, flash, disk, ignored>> /\ Elsewhere BY <1>1 DEF SlotsOnly, store
<1>3. Shape /\ InProgress /\ Promised BY DEF IInv
<1>4. CASE GiveUp /\ (Fault \/ Fine) BY <1>1, <1>2, <1>4, GiveUpStep
<1>5. CASE Whole(slots[Target]) /\ Continue /\ Fine
  <2>1. /\ command.name = "ota" /\ told["ota"] = Unknown /\ Left' = 1
        /\ slots[Target] = command.value
        /\ slots \in [Slots -> Images \cup {Factory, Empty}] /\ boot \in Slots
        /\ UpdateKept /\ SlotsKept
        BY <1>1, <1>5, Applying DEF Continue
  <2>2. /\ Shape' /\ ConfigKept' /\ ProfilesKept' /\ UploadKept' /\ UploadWhole'
        /\ UNCHANGED <<command, told, running, approved>>
        BY <1>1, <1>5, <2>1, SlotShape
  <2>3. InProgress' BY <1>1, <1>3, <1>5, <2>1, <2>2, UpdatingGoesOn
  <2>4. UpdateKept' /\ SlotsKept' BY <1>1, <2>1, <2>2, SlotsFrame
  <2> QED BY <2>2, <2>3, <2>4 DEF IInv, Promised
<1> QED BY <1>4, <1>5 DEF CheckSlot

LEMMA SelectSlotStep == IInv /\ SelectSlot => IInv'
<1> SUFFICES ASSUME IInv, SelectSlot PROVE IInv' OBVIOUS
<1>1. /\ calls # << >> /\ This.op = "ota-select" /\ slots' = slots /\ SlotsOnly
      BY DEF SelectSlot, Calling, This
<1>2. UNCHANGED <<nvs, flash, disk, ignored>> /\ Elsewhere BY <1>1 DEF SlotsOnly, store
<1>3. Shape /\ InProgress /\ Promised BY DEF IInv
<1>4. CASE UNCHANGED boot /\ GiveUp /\ (Fault \/ Fine) BY <1>1, <1>2, <1>4, GiveUpStep
<1>5. CASE Whole(slots[Target]) /\ boot' = Target /\ Continue /\ Fine
  <2>1. /\ command.name = "ota" /\ told["ota"] = Unknown /\ Left' = 0
        /\ slots[Target] = command.value /\ Whole(command.value)
        /\ slots \in [Slots -> Images \cup {Factory, Empty}] /\ SlotsKept
        BY <1>1, <1>5, Applying DEF Continue
  <2>2. boot' \in Slots BY <1>3, <1>5, TargetFacts
  <2>3. /\ Shape' /\ ConfigKept' /\ ProfilesKept' /\ UploadKept' /\ UploadWhole'
        /\ UNCHANGED <<command, told, running, approved>>
        BY <1>1, <1>5, <2>1, <2>2, SlotShape
  <2>4. InProgress' BY <1>1, <1>3, <1>5, <2>1, <2>3, UpdatingGoesOn
  <2>5. UpdateKept' BY <2>1, <2>3 DEF UpdateKept
  <2>6. SlotsKept' BY <1>1, <2>1, <2>3 DEF SlotsKept
  <2> QED BY <2>3, <2>4, <2>5, <2>6 DEF IInv, Promised
<1> QED BY <1>4, <1>5 DEF SelectSlot

-----------------------------------------------------------------------------
(* The theorems                                                            *)

LEMMA IInvStep == IInv /\ [Next]_vars => IInv'
<1> SUFFICES ASSUME IInv, [Next]_vars PROVE IInv' OBVIOUS
<1>1. CASE Boot BY <1>1, BootStep
<1>2. CASE Reset BY <1>2, ResetStep
<1>3. CASE Type BY <1>3, TypeStep
<1>4. CASE Call
      BY <1>4, NvsSetStep, NvsEraseStep, NvsCommitStep, OpenFileStep, WriteFileStep,
         CloseFileStep, RenameFileStep, RemoveFileStep, EraseSlotStep, WriteSlotStep,
         CheckSlotStep, SelectSlotStep DEF Call
<1>5. CASE Answer BY <1>5, AnswerStep
<1>6. CASE UNCHANGED vars
  <2>1. UNCHANGED <<nvs, flash, disk, up, mounted, profiles, auth, command, calls, ok, told,
                    slots, boot, running, approved, ignored, commands, faults>>
        BY <1>6 DEF vars, store, ram, session, ota, counts
  <2>2. Shape' BY <2>1 DEF IInv, Shape, TypeOK
  <2>3. InProgress'
    <3>1. Left' = Left BY <2>1 DEF Left
    <3>2. Setting' BY <2>1, <3>1 DEF IInv, InProgress, Setting, Rest
    <3>3. Clearing' BY <2>1, <3>1 DEF IInv, InProgress, Clearing, Rest
    <3>4. Configuring' BY <2>1, <3>1 DEF IInv, InProgress, Configuring, Rest
    <3>5. Refusing' BY <2>1 DEF IInv, InProgress, Refusing
    <3>6. Writing' BY <2>1, <3>1 DEF IInv, InProgress, Writing, Rest
    <3>7. Removing' BY <2>1, <3>1 DEF IInv, InProgress, Removing, Rest
    <3>8. Updating' BY <2>1, <3>1 DEF IInv, InProgress, Updating, Rest, Target
    <3> QED BY <3>2, <3>3, <3>4, <3>5, <3>6, <3>7, <3>8 DEF InProgress
  <2>4. Promised' BY <2>1, StoreFrame, FilesFrame, SlotsFrame DEF IInv, Promised
  <2> QED BY <2>2, <2>3, <2>4 DEF IInv
<1> QED BY <1>1, <1>2, <1>3, <1>4, <1>5, <1>6 DEF Next

\* In every reachable state: a command in progress has done exactly the calls
\* that are no longer on its list, and what is promised of anything else is in
\* RAM, on the medium and in the slots (idf_command_services.h, idf_ota.cpp).
THEOREM Inductive == Spec => []IInv
<1>1. Init => IInv BY IInvInit
<1>2. IInv /\ [Next]_vars => IInv' BY IInvStep
<1> QED BY <1>1, <1>2, PTL DEF Spec

\* Every variable stays in its type, whatever calls fail and wherever power does.
THEOREM TypeCorrect == Spec => []TypeOK
<1>1. IInv => TypeOK BY DEF IInv, Shape
<1> QED BY <1>1, Inductive, PTL

\* A configuration value the device said it updated or cleared stays in NVS and
\* is committed, until a command for that key begins (configSet(), configClear()).
THEOREM ConfigSurvives == Spec => []ConfigKept
<1>1. IInv => ConfigKept BY DEF IInv, Promised
<1> QED BY <1>1, Inductive, PTL

\* An upload reported complete, a removal, and the file an error was reported of
\* stay as they were, as long as neither fclose nor rename failed unseen
\* (fsWrite(), fsRemove()).
THEOREM UploadsSurvive == Spec => []UploadKept
<1>1. IInv => UploadKept BY DEF IInv, Promised
<1> QED BY <1>1, Inductive, PTL

\* No file is ever found cut short under its own name (fsWrite()).
THEOREM UploadsAreWhole == Spec => []UploadWhole
<1>1. IInv => UploadWhole BY DEF IInv, Promised
<1> QED BY <1>1, Inductive, PTL

\* At any moment the bootloader would start a whole image, and an approved one
\* (ota_apply_signed_image()).
THEOREM AlwaysBoots == Spec => []BootsApproved
<1>1. IInv => BootsApproved
  <2> SUFFICES ASSUME IInv PROVE BootsApproved OBVIOUS
  <2>1. Shape /\ SlotsKept BY DEF IInv, Promised
  <2> QED BY <2>1, BootFinds DEF BootsApproved
<1> QED BY <1>1, Inductive, PTL

\* The image reported selected is the one every boot starts, until the next
\* update that verifies begins (ota_apply_signed_image()).
THEOREM UpdatesSurvive == Spec => []UpdateKept
<1>1. IInv => UpdateKept BY DEF IInv, Promised
<1> QED BY <1>1, Inductive, PTL

\* Every boot loads the profile that was acknowledged last (wifiConfig(),
\* loadProfiles()).
THEOREM ProfilesSurvive == Spec => ProfileKept
<1>1. IInv /\ Boot =>
          \A s \in Slots : told[Item[s]] # Unknown => profiles'[s] = told[Item[s]]
  <2> SUFFICES ASSUME IInv, Boot, NEW s \in Slots, told[Item[s]] # Unknown
               PROVE  profiles'[s] = told[Item[s]]
      OBVIOUS
  <2>1. PICK c \in Fitting : /\ told[Item[s]] = <<c, c>>
                             /\ nvs[SsidKey[s]] = c /\ nvs[PasswordKey[s]] = c
        BY DEF IInv, Promised, ProfilesKept
  <2>2. c # Nil /\ c \notin LongSsids /\ c \notin LongPasswords
        BY StorageAssumption DEF Fitting
  <2>3. LoadProfile(nvs, s) = <<c, c>> BY <2>1, <2>2 DEF LoadProfile, Fits
  <2> QED BY <2>1, <2>3 DEF Boot
<1>2. IInv /\ [Next]_vars =>
          [Boot => \A s \in Slots :
              told[Item[s]] # Unknown => profiles'[s] = told[Item[s]]]_vars
      BY <1>1
<1> QED BY <1>2, Inductive, PTL DEF Spec, ProfileKept

-----------------------------------------------------------------------------
(* An update is atomic                                                     *)

\* The image of the update in progress.
Pending == IF command.name = "ota" /\ ok THEN command.value ELSE Unknown

\* The bootloader starts the other slot than the one that runs only if that was
\* selected and holds a whole image.
LEMMA WhatStarts ==
    ASSUME NEW b \in Slots, NEW r \in Slots, NEW m, Whole(m[r])
    PROVE  (IF Whole(m[b]) THEN b ELSE Other(b))
               = IF b = Other(r) /\ Whole(m[Other(r)]) THEN Other(r) ELSE r
<1>1. /\ Other(r) \in Slots /\ Other(r) # r /\ Other(Other(r)) = r
      /\ \A s \in Slots : s = Other(r) \/ s = r
      BY DEF Other, Slots
<1> QED BY <1>1

LEMMA StartsNow ==
    ASSUME Shape, SlotsKept
    PROVE  Chosen = IF boot = Target /\ Whole(slots[Target]) THEN Target ELSE running
BY WhatStarts DEF Chosen, Shape, TypeOK, SlotsKept, Target

LEMMA StartsNext ==
    ASSUME Shape', SlotsKept'
    PROVE  Chosen' = IF boot' = Target' /\ Whole(slots'[Target']) THEN Target' ELSE running'
BY WhatStarts DEF Chosen, Shape, TypeOK, SlotsKept, Target

\* An image in hand is none of the values that stand for nothing.
LEMMA PendingFacts ==
    ASSUME IInv
    PROVE  IF command.name = "ota" /\ ok
           THEN Pending = command.value /\ Pending \in Images /\ Pending # Unknown
           ELSE Pending = Unknown
BY StorageAssumption DEF IInv, InProgress, Updating, Pending

LEMMA Stutters ==
    ASSUME slots' = slots, boot' = boot, running' = running, told'["ota"] = told["ota"],
           Pending' = Pending
    PROVE  UNCHANGED Update!vars
BY DEF Update!vars, Chosen, Pending

LEMMA UpdateInit == Init => Update!Init
<1> SUFFICES ASSUME Init PROVE Update!Init OBVIOUS
<1>1. Whole(Factory) BY StorageAssumption DEF Whole
<1>2. Chosen = 0 /\ slots[0] = Factory BY <1>1 DEF Init, Chosen, Slots
<1>3. told["ota"] = Unknown BY ItemFacts DEF Init
<1>4. command.name # "ota" BY DEF Init, Idle
<1> QED BY <1>2, <1>3, <1>4 DEF Init, Update!Init

\* A boot starts what the bootloader chooses, and changes no choice.
LEMMA UpdateBoot == IInv /\ Boot => Update!Restart
<1> SUFFICES ASSUME IInv, Boot PROVE Update!Restart OBVIOUS
<1>1. running' = Chosen /\ UNCHANGED <<slots, boot, command, ok, told>>
      BY DEF Boot, session
<1>2. command.name = "none" BY DEF IInv, Shape, Boot
<1>3. Chosen' = Chosen BY <1>1 DEF Chosen
<1> QED BY <1>1, <1>2, <1>3 DEF Update!Restart

\* A reset abandons the update in progress.
LEMMA UpdateReset == IInv /\ Reset => Update!Abandon \/ UNCHANGED Update!vars
<1> SUFFICES ASSUME IInv, Reset PROVE Update!Abandon \/ UNCHANGED Update!vars OBVIOUS
<1>1. command' = Idle /\ UNCHANGED <<slots, boot, running, told>> BY DEF Reset, ota
<1>2. command'.name = "none" BY <1>1 DEF Idle
<1>3. Pending' = Unknown BY <1>2 DEF Pending
<1>4. CASE Pending = Unknown BY <1>1, <1>3, <1>4, Stutters
<1>5. CASE Pending # Unknown
      BY <1>1, <1>3, <1>5 DEF Update!Abandon, Pending, Chosen
<1> QED BY <1>4, <1>5

\* An image that verifies is the one in hand; every other command, and an update
\* that is refused, leaves the choice and what was reported alone.
LEMMA UpdateType ==
    IInv /\ Type => (\E image \in Images : Update!Accept(image)) \/ UNCHANGED Update!vars
<1> SUFFICES ASSUME IInv, Type
             PROVE  (\E image \in Images : Update!Accept(image)) \/ UNCHANGED Update!vars
    OBVIOUS
<1>1. ASSUME NEW name, NEW item, NEW value, NEW touched, NEW list,
             Begin(name, item, value, touched, list)
      PROVE  /\ command.name = "none" /\ Pending = Unknown
             /\ UNCHANGED <<slots, boot, running>>
             /\ command'.name = name /\ command'.value = value /\ ok' = (list # << >>)
             /\ told'["ota"] = IF "ota" \in touched THEN Unknown ELSE told["ota"]
      BY <1>1, ItemFacts DEF Begin, Idle, Pending
<1>2. ASSUME NEW name, NEW item, NEW value, NEW touched, NEW list,
             Begin(name, item, value, touched, list),
             name # "ota" \/ list = << >>, "ota" \notin touched
      PROVE  UNCHANGED Update!vars
  <2>1. Pending' = Unknown BY <1>1, <1>2 DEF Pending
  <2> QED BY <1>1, <1>2, <2>1, Stutters
<1>3. CASE \E slot \in Slots : WifiProfileClear(slot) \/ \E c \in Creds : WifiConfig(slot, c)
      BY <1>2, <1>3, ItemFacts DEF WifiProfileClear, WifiConfig
<1>4. CASE \E k \in SetKeys, v \in Texts : ConfigSet(k, v)
      BY <1>2, <1>4, ItemFacts DEF ConfigSet
<1>5. CASE ConfigClear
      BY <1>2, <1>5 DEF ConfigClear
<1>6. CASE \E f \in Files : FsRemove(f) \/ \E v \in Contents : FsWrite(f, v)
      BY <1>2, <1>6, ItemFacts DEF FsRemove, FsWrite
<1>7. ASSUME NEW image \in Images, OtaApply(image)
      PROVE  Update!Accept(image) \/ UNCHANGED Update!vars
  <2>1. CASE Verified(image) /\ image \notin Oversized
    <3>1. Begin("ota", "ota", image, {"ota"}, OtaCalls(image)) BY <1>7, <2>1 DEF OtaApply
    <3>2. OtaCalls(image) # << >> BY DEF OtaCalls
    <3>3. Pending = Unknown /\ Pending' = image /\ told'["ota"] = Unknown
          /\ UNCHANGED <<slots, boot, running>>
          BY <1>1, <3>1, <3>2 DEF Pending
    <3>4. Chosen' = Chosen BY <3>3 DEF Chosen
    <3> QED BY <3>3, <3>4 DEF Update!Accept, Pending
  <2>2. CASE ~(Verified(image) /\ image \notin Oversized)
    <3>1. Begin("ota", "ota", image, {}, << >>) BY <1>7, <2>2 DEF OtaApply
    <3> QED BY <1>2, <3>1
  <2> QED BY <2>1, <2>2
<1> QED BY <1>3, <1>4, <1>5, <1>6, <1>7 DEF Type

\* A call of another command.
LEMMA UpdateOtherCall ==
    ASSUME IInv, calls # << >>, command.name # "ota", Elsewhere, UNCHANGED <<slots, boot>>
    PROVE  UNCHANGED Update!vars
<1>1. UNCHANGED <<command, told, running>> BY DEF Elsewhere
<1> QED BY <1>1, Stutters DEF Pending

\* A call of the update that fails.
LEMMA UpdateGivesUp ==
    ASSUME IInv, command.name = "ota", ok, GiveUp, Elsewhere, UNCHANGED <<slots, boot>>
    PROVE  Update!Abandon
<1>1. UNCHANGED <<command, told, running>> /\ ~ok' BY DEF Elsewhere, GiveUp
<1>2. Pending # Unknown /\ Pending' = Unknown BY <1>1, PendingFacts DEF Pending
<1>3. Chosen' = Chosen BY DEF Chosen
<1> QED BY <1>1, <1>2, <1>3 DEF Update!Abandon, Pending

LEMMA UpdateErase == IInv /\ IInv' /\ EraseSlot => Update!Abandon \/ Update!Revert
<1> SUFFICES ASSUME IInv, IInv', EraseSlot PROVE Update!Abandon \/ Update!Revert OBVIOUS
<1>1. calls # << >> /\ This.op = "ota-begin" /\ boot' = boot /\ Elsewhere
      BY DEF EraseSlot, Calling, This, SlotsOnly
<1>2. command.name = "ota" /\ ok /\ UNCHANGED <<command, told, running>>
      BY <1>1, Caller, NextUpdating DEF IInv, Elsewhere
<1>3. CASE UNCHANGED slots /\ GiveUp BY <1>1, <1>2, <1>3, UpdateGivesUp
<1>4. CASE slots' = [slots EXCEPT ![Target] = Empty] /\ Continue
  <2>1. Shape /\ Shape' /\ SlotsKept' /\ slots \in [Slots -> Images \cup {Factory, Empty}]
        BY DEF IInv, Promised, Shape, TypeOK
  <2>2. Target \in Slots /\ Target # running /\ Target' = Target
        BY <1>2, <2>1, TargetFacts DEF Target
  <2>3. slots'[Target] = Empty /\ slots'[running] = slots[running]
        BY <1>4, <2>1, <2>2
  <2>4. Chosen' = IF boot' = Target' /\ Whole(slots'[Target']) THEN Target' ELSE running'
        BY <2>1, StartsNext
  <2>5. Chosen' = running BY <1>2, <2>2, <2>3, <2>4 DEF Whole
  <2>6. Pending # Unknown /\ Pending' = Pending
        BY <1>2, <1>4, PendingFacts DEF Pending, Continue
  <2> QED BY <1>2, <2>3, <2>5, <2>6 DEF Update!Revert, Pending
<1> QED BY <1>3, <1>4 DEF EraseSlot
\* The write itself moves the choice when the slot it fills is still selected from
\* an earlier update.
LEMMA UpdateWrite ==
    IInv /\ IInv' /\ WriteSlot => Update!Abandon \/ Update!Revert \/ Update!Switch
<1> SUFFICES ASSUME IInv, IInv', WriteSlot
             PROVE  Update!Abandon \/ Update!Revert \/ Update!Switch
    OBVIOUS
<1>1. calls # << >> /\ This.op = "ota-write" /\ boot' = boot /\ Elsewhere
      BY DEF WriteSlot, Calling, This, SlotsOnly
<1>2. command.name = "ota" /\ ok /\ UNCHANGED <<command, told, running>>
      BY <1>1, Caller, NextUpdating DEF IInv, Elsewhere
<1>3. CASE UNCHANGED slots /\ GiveUp BY <1>1, <1>2, <1>3, UpdateGivesUp
<1>4. CASE slots' = [slots EXCEPT ![Target] = This.value] /\ Continue
  <2>1. Shape /\ Shape' /\ SlotsKept' /\ slots \in [Slots -> Images \cup {Factory, Empty}]
        BY DEF IInv, Promised, Shape, TypeOK
  <2>2. Target \in Slots /\ Target # running /\ Target' = Target
        BY <1>2, <2>1, TargetFacts DEF Target
  <2>3. This.value = command.value BY <1>1, Applying
  <2>4. slots'[Target] = command.value /\ slots'[running] = slots[running]
        BY <1>4, <2>1, <2>2, <2>3
  <2>5. Chosen' = IF boot' = Target' /\ Whole(slots'[Target']) THEN Target' ELSE running'
        BY <2>1, StartsNext
  <2>6. Pending = command.value /\ Pending \in Images /\ Pending # Unknown /\ Pending' = Pending
        BY <1>2, <1>4, PendingFacts DEF Pending, Continue
  <2>7. CASE Chosen' = running
        BY <1>2, <2>4, <2>6, <2>7 DEF Update!Revert, Pending
  <2>8. CASE Chosen' = Target /\ Whole(command.value)
    <3>1. Pending \in Images \ Broken BY <2>6, <2>8 DEF Whole
    <3> QED BY <1>2, <2>4, <2>6, <2>8, <3>1 DEF Update!Switch, Pending
  <2> QED BY <1>2, <2>2, <2>4, <2>5, <2>7, <2>8
<1> QED BY <1>3, <1>4 DEF WriteSlot

LEMMA UpdateCheck == IInv /\ CheckSlot => Update!Abandon \/ UNCHANGED Update!vars
<1> SUFFICES ASSUME IInv, CheckSlot PROVE Update!Abandon \/ UNCHANGED Update!vars OBVIOUS
<1>1. /\ calls # << >> /\ This.op = "ota-end" /\ UNCHANGED <<slots, boot>> /\ Elsewhere
      BY DEF CheckSlot, Calling, This, SlotsOnly
<1>2. command.name = "ota" /\ ok /\ UNCHANGED <<command, told, running>>
      BY <1>1, Caller, NextUpdating DEF IInv, Elsewhere
<1>3. CASE GiveUp BY <1>1, <1>2, <1>3, UpdateGivesUp
<1>4. CASE Continue
  <2>1. Pending' = Pending BY <1>2, <1>4 DEF Pending, Continue
  <2> QED BY <1>1, <1>2, <2>1, Stutters
<1> QED BY <1>3, <1>4 DEF CheckSlot

LEMMA UpdateSelect == IInv /\ IInv' /\ SelectSlot => Update!Abandon \/ Update!Switch
<1> SUFFICES ASSUME IInv, IInv', SelectSlot PROVE Update!Abandon \/ Update!Switch OBVIOUS
<1>1. /\ calls # << >> /\ This.op = "ota-select" /\ slots' = slots /\ Elsewhere
      BY DEF SelectSlot, Calling, This, SlotsOnly
<1>2. command.name = "ota" /\ ok /\ UNCHANGED <<command, told, running>>
      BY <1>1, Caller, NextUpdating DEF IInv, Elsewhere
<1>3. CASE UNCHANGED boot /\ GiveUp BY <1>1, <1>2, <1>3, UpdateGivesUp
<1>4. CASE Whole(slots[Target]) /\ boot' = Target /\ Continue
  <2>1. Shape' /\ SlotsKept' BY DEF IInv, Promised
  <2>2. Target' = Target BY <1>2 DEF Target
  <2>3. Left \in Nat /\ Left = 1 /\ slots[Target] = command.value /\ Whole(command.value)
        BY <1>1, Applying
  <2>4. Chosen' = Target BY <1>1, <1>4, <2>1, <2>2, StartsNext
  <2>5. Pending = command.value /\ Pending \in Images /\ Pending # Unknown /\ Pending' = Pending
        BY <1>2, <1>4, PendingFacts DEF Pending, Continue
  <2>6. Pending \in Images \ Broken BY <2>3, <2>5 DEF Whole
  <2> QED BY <1>1, <1>2, <2>3, <2>4, <2>5, <2>6 DEF Update!Switch, Pending
<1> QED BY <1>3, <1>4 DEF SelectSlot

\* The answer to an update that made all its calls is the report; any other
\* answer is about another item.
LEMMA UpdateAnswer == IInv /\ Answer => Update!Report \/ UNCHANGED Update!vars
<1> SUFFICES ASSUME IInv, Answer PROVE Update!Report \/ UNCHANGED Update!vars OBVIOUS
<1>1. /\ command # Idle /\ calls = << >> /\ command' = Idle
      /\ UNCHANGED <<slots, boot, running>>
      BY DEF Answer, ota
<1>2. Pending' = Unknown BY <1>1 DEF Pending, Idle
<1>3. Chosen' = Chosen BY <1>1 DEF Chosen
<1>4. Shape /\ SlotsKept /\ told \in [Items -> Promises] BY DEF IInv, Promised, Shape
<1>5. CASE command.name = "ota" /\ ok
  <2>1. Left = 0 BY <1>1 DEF Left
  <2>2. /\ command.item = "ota" /\ slots[Target] = command.value /\ Whole(command.value)
        /\ boot = Target
        BY <1>5, <2>1 DEF IInv, InProgress, Updating
  <2>3. slots[Chosen] = command.value BY <1>4, <2>2, StartsNow
  <2>4. told'["ota"] = command.value BY <1>4, <1>5, <2>2, ItemFacts DEF Answer
  <2>5. Pending = command.value /\ Pending # Unknown BY <1>5, PendingFacts
  <2> QED BY <1>1, <1>2, <1>3, <2>3, <2>4, <2>5 DEF Update!Report, Pending
<1>6. CASE ~(command.name = "ota" /\ ok)
  <2>1. told'["ota"] = told["ota"]
    <3>1. CASE ok
      <4>1. command.item # "ota" /\ told' = [told EXCEPT ![command.item] = command.value]
            BY <1>1, <1>6, <3>1, ItemFacts
               DEF Answer, IInv, Shape, CommandNames, InProgress, Setting, Clearing,
                   Configuring, Refusing, Writing, Removing
      <4> QED BY <1>4, <4>1, ItemFacts
    <3>2. CASE ~ok
      <4>1. \/ told' = told
            \/ command.item \in Files /\ told' = [told EXCEPT ![command.item] = command.was]
            BY <1>1, <3>2, LeftAlone DEF Answer
      <4> QED BY <1>4, <4>1, ItemFacts
    <3> QED BY <3>1, <3>2
  <2>2. Pending = Unknown BY <1>6 DEF Pending
  <2> QED BY <1>1, <1>2, <2>1, <2>2, Stutters
<1> QED BY <1>5, <1>6

LEMMA UpdateStep == IInv /\ IInv' /\ [Next]_vars => [Update!Next]_(Update!vars)
<1> SUFFICES ASSUME IInv, IInv', [Next]_vars PROVE Update!Next \/ UNCHANGED Update!vars OBVIOUS
<1>1. CASE Boot BY <1>1, UpdateBoot DEF Update!Next
<1>2. CASE Reset BY <1>2, UpdateReset DEF Update!Next
<1>3. CASE Type BY <1>3, UpdateType DEF Update!Next
<1>4. CASE EraseSlot BY <1>4, UpdateErase DEF Update!Next
<1>5. CASE WriteSlot BY <1>5, UpdateWrite DEF Update!Next
<1>6. CASE CheckSlot BY <1>6, UpdateCheck DEF Update!Next
<1>7. CASE SelectSlot BY <1>7, UpdateSelect DEF Update!Next
<1>8. CASE Call /\ ~(EraseSlot \/ WriteSlot \/ CheckSlot \/ SelectSlot)
  <2>1. \/ NvsSet \/ NvsErase \/ NvsCommit
        \/ OpenFile \/ WriteFile \/ CloseFile \/ RenameFile \/ RemoveFile
        BY <1>8 DEF Call
  <2>2. /\ calls # << >> /\ Elsewhere /\ UNCHANGED <<slots, boot>>
        /\ This.op \in {"set", "erase", "commit", "open", "write", "close", "rename", "remove"}
        BY <2>1 DEF NvsSet, NvsErase, NvsCommit, OpenFile, WriteFile, CloseFile, RenameFile,
                    RemoveFile, Calling, This, NvsOnly, FilesOnly
  <2>3. command.name # "ota" BY <2>2, Caller DEF IInv
  <2> QED BY <2>2, <2>3, UpdateOtherCall
<1>9. CASE Answer BY <1>9, UpdateAnswer DEF Update!Next
<1>10. CASE UNCHANGED vars
  <2>1. UNCHANGED <<slots, boot, running, told, command, ok>>
        BY <1>10 DEF vars, ota, session
  <2> QED BY <2>1, Stutters DEF Pending
<1> QED BY <1>1, <1>2, <1>3, <1>4, <1>5, <1>6, <1>7, <1>8, <1>9, <1>10 DEF Next, Call

\* An update is atomic, whatever call of it fails, wherever power does and whatever
\* updates came before: the choice of the bootloader moves only to the image that
\* runs or to the whole new one, and an update is reported only when every boot
\* starts it (ota_apply_signed_image()).
THEOREM UpdatesAreAtomic == Spec => UpdateIsAtomic
<1>1. Init => Update!Init BY UpdateInit
<1>2. IInv /\ IInv' /\ [Next]_vars => [Update!Next]_(Update!vars) BY UpdateStep
<1> QED BY <1>1, <1>2, Inductive, PTL DEF Spec, UpdateIsAtomic, Update!Spec
=============================================================================
