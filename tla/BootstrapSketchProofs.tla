----------------------- MODULE BootstrapSketchProofs -----------------------
(***************************************************************************)
(* Proofs about BootstrapSketch, for every set of credentials, every store *)
(* and script to begin with, and any number of commands, resets and calls  *)
(* that fail.  The invariants between two commands are the invariants of   *)
(* the rest of a command: what the store, the profiles and the apps will   *)
(* be once the calls that are left are made.                               *)
(***************************************************************************)
EXTENDS BootstrapSketch, SequenceTheorems, WellFoundedInduction, TLAPS

-----------------------------------------------------------------------------
(* What the rest of a command does                                         *)

Calls ==
    [op : {"put"}, on : WifiKeys, value : Creds]
    \cup [op : {"put"}, on : AuthKeys, value : Values]
    \cup [op : {"remove"}, on : Keys, value : {Nil}]
    \cup [op : {"clear-nvs", "clear-wifi"}, on : {"none"}, value : {Nil}]
    \cup [op : {"configure"}, on : Slots, value : Creds \X Creds]
    \cup [op : {"clear-slot"}, on : Slots, value : {Nil}]
    \cup [op : {"led"}, on : {"none"}, value : BOOLEAN]
    \cup [op : {"create", "delete", "stopped"}, on : Apps, value : {Nil}]
    \cup [op : {"reply", "refuse"}, on : {"none"}, value : {Nil}]

\* The commands the provisioning tool brings the device to execute.
ToolCommands ==
    {<<Refuse>>} \cup {StoreProfile(s, c) : s \in Slots, c \in Creds}
    \cup {ConfigSet(k, v) : k \in {"ssh_username", "ssh_password", "ssh_host_key"},
                            v \in Secrets}

\* A call changes a key of the store, or a profile.
Writes(c, k) == c.op = "clear-nvs" \/ (c.op \in {"put", "remove"} /\ c.on = k)
Sets(c, s) == c.op = "clear-wifi" \/ (c.op \in {"configure", "clear-slot"} /\ c.on = s)
Profile(c) == IF c.op = "configure" THEN Clipped(c.value) ELSE c.value

\* The store and the profiles after the calls of a list.
NvsAfter(list, m) ==
    [k \in Keys |->
        IF \E i \in 1..Len(list) : Writes(list[i], k)
        THEN list[CHOOSE i \in 1..Len(list) : Writes(list[i], k)].value
        ELSE m[k]]
ProfilesAfter(list, p) ==
    [s \in Slots |->
        IF \E i \in 1..Len(list) : Sets(list[i], s)
        THEN Profile(list[CHOOSE i \in 1..Len(list) : Sets(list[i], s)])
        ELSE p[s]]

\* No command does one thing twice, and each ends with its answer.
Command(list) ==
    /\ list \in Seq(Calls)
    /\ \A i, j \in 1..Len(list) :
           /\ \A k \in Keys : Writes(list[i], k) /\ Writes(list[j], k) => i = j
           /\ \A s \in Slots : Sets(list[i], s) /\ Sets(list[j], s) => i = j
    /\ \A i \in 1..Len(list) : list[i].op \in {"reply", "refuse"} <=> i = Len(list)

-----------------------------------------------------------------------------
(* The inductive invariant                                                 *)

Stores == {m \in [Keys -> Values \cup {Nil}] : \A k \in WifiKeys : m[k] \in Creds \cup {Nil}}
Whole(m) == \A s \in Slots : m[SsidKey[s]] = Nil <=> m[PasswordKey[s]] = Nil

\* Types; a device that is down does nothing and joins nothing.
WifiShape ==
    /\ profiles \in [Slots -> {Nil} \cup (Creds \X Creds)]
    /\ state \in {"Offline", "Connecting", "Connected"}
    /\ nextAttemptAt \in 0..(TickMod - 1) /\ now \in 0..(TickMod - 1)
    /\ nextProfile \in Slots /\ activeSlot \in Slots
    /\ link \in {"idle", "joining", "associated", "online"}
    /\ joined \in Slots \cup {Nil} /\ (joined = Nil <=> link = "idle")
Shape ==
    /\ nvs \in Stores
    /\ WifiShape
    /\ record \in [Apps -> {"Stopped", "Running", "Failed"}]
    /\ host \in {"sending", "waiting", "done", "failed"}
    /\ unsaved \subseteq Keys
    /\ Command(calls)
    /\ ~up => calls = << >> /\ link = "idle"
Flags ==
    /\ rejected \in BOOLEAN /\ led \in BOOLEAN /\ dark \in BOOLEAN
    /\ task \in [Apps -> BOOLEAN]

\* The tool has sent what it waits for.
AtTool ==
    user = "tool" =>
        /\ script \in Seq(ToolLines) \ {<< >>} /\ at \in 1..Len(script)
        /\ calls # << >> => host = "waiting"

\* What RamIsStored and ImagesAgree will be when the command is done.
InRam(m, p) == \A s \in Slots : p[s] = LoadWifi(m, s)
RamWillBeStored ==
    up /\ ~drift => InRam(NvsAfter(calls, nvs), ProfilesAfter(calls, profiles))
StaysWhole == ~torn => Whole(NvsAfter(calls, nvs))

Agrees(a) == task[a] <=> record[a] = "Running"
AppCall(c) == c.op \in {"led", "create", "delete", "stopped"}

\* Where a command on an app stands, and what that says of task, record and LED.
AtApp ==
    \/ /\ \A i \in 1..Len(calls) : ~AppCall(calls[i])
       /\ \A a \in Apps : Agrees(a)
    \/ /\ calls = <<LedOn, Create("led-blink"), Reply>> /\ ~task["led-blink"]
       /\ \A a \in Apps : Agrees(a)
    \/ \E a \in Apps :
           /\ calls = <<Create(a), Reply>> /\ ~task[a]
           /\ \A x \in Apps : Agrees(x)
           /\ a = "led-blink" => ~dark
    \/ /\ calls = <<Delete("led-blink"), LedOff, Stopped("led-blink"), Reply>> /\ ~dark
       /\ \A a \in Apps : Agrees(a)
    \/ /\ calls = <<Delete("diagnostics"), Stopped("diagnostics"), Reply>>
       /\ \A a \in Apps : Agrees(a)
    \/ /\ calls = <<LedOff, Stopped("led-blink"), Reply>> /\ ~task["led-blink"] /\ ~dark
       /\ Agrees("diagnostics")
    \/ \E a \in Apps :
           /\ calls = <<Stopped(a), Reply>> /\ ~task[a]
           /\ \A x \in Apps \ {a} : Agrees(x)
           /\ a = "led-blink" => ~led
DarkIsOff == dark => ~led /\ ~task["led-blink"]

\* The station holds on to a profile that is set, unless an attempt was refused.
LinkHolds == link # "idle" /\ ~rejected => joined = activeSlot /\ profiles[joined] # Nil

IInv ==
    /\ Shape /\ Flags /\ AtTool /\ RamWillBeStored /\ StaysWhole /\ AtApp /\ DarkIsOff
    /\ LinkHolds

\* How many commands of the script the tool's present run has brought to the
\* device, the one being executed included: none, once an answer was lost.
Done ==
    IF calls # << >> THEN at
    ELSE IF host = "sending" THEN at - 1
    ELSE IF host = "done" THEN Len(script)
    ELSE 0

\* What the last of them to change a key stored stands in the store when the
\* command is done, or the key is known not to be saved.
Puts(c, k) == c.op = "put" /\ c.on = k
Ran(i) == Executes(script[i])
PutIn(i, k) == \E j \in 1..Len(Ran(i)) : Puts(Ran(i)[j], k)
Kept(k, v) ==
    \/ k \in unsaved /\ \A x \in 1..Len(calls) : ~Writes(calls[x], k)
    \/ NvsAfter(calls, nvs)[k] = v
Delivered ==
    user = "tool" =>
        \A i \in 1..Done : \A j \in 1..Len(Ran(i)) :
            Ran(i)[j].op = "put" =>
                \/ Kept(Ran(i)[j].on, Ran(i)[j].value)
                \/ \E later \in (i + 1)..Done : PutIn(later, Ran(i)[j].on)

-----------------------------------------------------------------------------
(* Lists of calls                                                          *)

LEMMA Distinct == Slots = {0, 1} /\ Keys # {} /\ Apps = {"diagnostics", "led-blink"}
BY DEF Slots, Keys, WifiKeys, Apps

LEMMA ToolCommandForms ==
    ASSUME NEW list \in ToolCommands
    PROVE  \/ list = <<Refuse>>
           \/ \E s \in Slots, c \in Creds : list = StoreProfile(s, c)
           \/ \E k \in {"ssh_username", "ssh_password", "ssh_host_key"}, v \in Secrets :
                  list = ConfigSet(k, v)
BY DEF ToolCommands

LEMMA WifiNames ==
    /\ SsidKey[0] = "wifi_ssid_0" /\ SsidKey[1] = "wifi_ssid_1"
    /\ PasswordKey[0] = "wifi_password_0" /\ PasswordKey[1] = "wifi_password_1"
BY DEF SsidKey, PasswordKey, Slots

\* The kinds of calls.
LEMMA Kinds ==
    ASSUME NEW c \in Calls
    PROVE  /\ c.op \in {"put", "remove", "clear-nvs", "clear-wifi", "configure", "clear-slot",
                        "led", "create", "delete", "stopped", "reply", "refuse"}
           /\ c.op = "put" => \/ c.on \in WifiKeys /\ c.value \in Creds
                              \/ c.on \in AuthKeys /\ c.value \in Values
           /\ c.op = "remove" => c.on \in Keys /\ c.value = Nil
           /\ c.op \in {"clear-nvs", "clear-wifi", "clear-slot"} => c.value = Nil
           /\ c.op = "configure" => c.on \in Slots /\ c.value \in Creds \X Creds
           /\ c.op = "clear-slot" => c.on \in Slots
           /\ c.op \in {"create", "delete", "stopped"} => c.on \in Apps
BY DEF Calls

\* A list is its first call and the rest.
LEMMA HeadAndTail ==
    ASSUME NEW list \in Seq(Calls), list # << >>
    PROVE  /\ Head(list) \in Calls /\ Head(list) = list[1] /\ Tail(list) \in Seq(Calls)
           /\ Len(list) \in Nat \ {0} /\ Len(Tail(list)) = Len(list) - 1
           /\ \A i \in 1..Len(Tail(list)) : Tail(list)[i] = list[i + 1] /\ i + 1 \in 2..Len(list)
           /\ \A i \in 2..Len(list) : list[i] = Tail(list)[i - 1] /\ i - 1 \in 1..Len(Tail(list))
OBVIOUS

\* What is left of a command is that of a command, unless it was the answer.
LEMMA CommandTail ==
    ASSUME NEW list, Command(list), list # << >>
    PROVE  /\ Command(Tail(list))
           /\ Head(list).op \in {"reply", "refuse"} <=> Tail(list) = << >>
<1>1. list \in Seq(Calls) BY DEF Command
<1>2. /\ Head(list) = list[1] /\ Tail(list) \in Seq(Calls)
      /\ Len(list) \in Nat \ {0} /\ Len(Tail(list)) = Len(list) - 1
      /\ \A i \in 1..Len(Tail(list)) : Tail(list)[i] = list[i + 1] /\ i + 1 \in 2..Len(list)
      BY <1>1, HeadAndTail
<1>3. /\ \A i, j \in 1..Len(list) :
             /\ \A k \in Keys : Writes(list[i], k) /\ Writes(list[j], k) => i = j
             /\ \A s \in Slots : Sets(list[i], s) /\ Sets(list[j], s) => i = j
      /\ \A i \in 1..Len(list) : list[i].op \in {"reply", "refuse"} <=> i = Len(list)
      BY DEF Command
<1> DEFINE rest == Tail(list)
<1>4. /\ rest \in Seq(Calls) /\ Len(rest) \in Nat /\ Len(rest) = Len(list) - 1
      /\ \A i \in 1..Len(rest) : rest[i] = list[i + 1] /\ i + 1 \in 1..Len(list) /\ i \in Nat
      BY <1>2
<1> HIDE DEF rest
<1>5. ASSUME NEW i \in 1..Len(rest), NEW j \in 1..Len(rest)
      PROVE  /\ \A k \in Keys : Writes(rest[i], k) /\ Writes(rest[j], k) => i = j
             /\ \A s \in Slots : Sets(rest[i], s) /\ Sets(rest[j], s) => i = j
  <2>1. rest[i] = list[i + 1] /\ rest[j] = list[j + 1] BY <1>4
  <2>2. i + 1 \in 1..Len(list) /\ j + 1 \in 1..Len(list) BY <1>4
  <2>3. i + 1 = j + 1 => i = j OBVIOUS
  <2> QED BY <1>3, <2>1, <2>2, <2>3
<1>6. ASSUME NEW i \in 1..Len(rest) PROVE rest[i].op \in {"reply", "refuse"} <=> i = Len(rest)
  <2>1. rest[i] = list[i + 1] /\ i + 1 \in 1..Len(list) BY <1>4
  <2>2. i + 1 = Len(list) <=> i = Len(rest) BY <1>4, <1>2
  <2> QED BY <1>3, <2>1, <2>2
<1>7. Command(rest) BY <1>4, <1>5, <1>6 DEF Command
<1>8. Head(list).op \in {"reply", "refuse"} <=> 1 = Len(list)
  <2>1. 1 \in 1..Len(list) BY <1>2
  <2>2. list[1].op \in {"reply", "refuse"} <=> 1 = Len(list) BY <1>3, <2>1, Zenon
  <2> QED BY <1>2, <2>2, Zenon
<1>9. rest = << >> <=> Len(rest) = 0 BY <1>4
<1> QED BY <1>2, <1>4, <1>7, <1>8, <1>9 DEF rest

\* Of a list that changes each key once at most, the call that does decides.
LEMMA WrittenBy ==
    ASSUME NEW list, Command(list), NEW m, NEW k \in Keys, NEW i \in 1..Len(list),
           Writes(list[i], k)
    PROVE  NvsAfter(list, m)[k] = list[i].value
<1>1. \A j \in 1..Len(list) : Writes(list[j], k) => j = i BY DEF Command
<1>2. (CHOOSE j \in 1..Len(list) : Writes(list[j], k)) = i BY <1>1
<1> QED BY <1>2 DEF NvsAfter

LEMMA Unwritten ==
    ASSUME NEW list, NEW m, NEW k \in Keys, \A i \in 1..Len(list) : ~Writes(list[i], k)
    PROVE  NvsAfter(list, m)[k] = m[k]
BY DEF NvsAfter

LEMMA SetBy ==
    ASSUME NEW list, Command(list), NEW p, NEW s \in Slots, NEW i \in 1..Len(list),
           Sets(list[i], s)
    PROVE  ProfilesAfter(list, p)[s] = Profile(list[i])
<1>1. \A j \in 1..Len(list) : Sets(list[j], s) => j = i BY DEF Command
<1>2. (CHOOSE j \in 1..Len(list) : Sets(list[j], s)) = i BY <1>1
<1> QED BY <1>2 DEF ProfilesAfter

LEMMA Unset ==
    ASSUME NEW list, NEW p, NEW s \in Slots, \A i \in 1..Len(list) : ~Sets(list[i], s)
    PROVE  ProfilesAfter(list, p)[s] = p[s]
BY DEF ProfilesAfter

LEMMA KeyTail ==
    ASSUME NEW list, Command(list), list # << >>, NEW m, NEW n, NEW k \in Keys,
           n[k] = IF Writes(Head(list), k) THEN Head(list).value ELSE m[k]
    PROVE  NvsAfter(Tail(list), n)[k] = NvsAfter(list, m)[k]
<1> DEFINE rest == Tail(list)
<1>1. list \in Seq(Calls) BY DEF Command
<1>2. /\ Head(list) = list[1] /\ 1 \in 1..Len(list) /\ Command(rest)
      /\ \A i \in 1..Len(rest) : rest[i] = list[i + 1] /\ i + 1 \in 1..Len(list) /\ i + 1 # 1
      /\ \A i \in 1..Len(list) : i = 1 \/ (i - 1 \in 1..Len(rest) /\ list[i] = rest[i - 1])
      BY <1>1, HeadAndTail, CommandTail
<1> HIDE DEF rest
<1>3. CASE Writes(Head(list), k)
  <2>1. NvsAfter(list, m)[k] = Head(list).value BY <1>2, <1>3, WrittenBy
  <2>2. \A i \in 1..Len(rest) : ~Writes(rest[i], k) BY <1>2, <1>3 DEF Command
  <2>3. NvsAfter(rest, n)[k] = n[k] BY <2>2, Unwritten
  <2> QED BY <1>3, <2>1, <2>3 DEF rest
<1>4. CASE \E i \in 1..Len(rest) : Writes(rest[i], k)
  <2>1. PICK i \in 1..Len(rest) : Writes(rest[i], k) BY <1>4
  <2>2. NvsAfter(rest, n)[k] = rest[i].value BY <1>2, <2>1, WrittenBy
  <2>3. NvsAfter(list, m)[k] = list[i + 1].value BY <1>2, <2>1, WrittenBy
  <2> QED BY <1>2, <2>2, <2>3 DEF rest
<1>5. CASE ~Writes(Head(list), k) /\ \A i \in 1..Len(rest) : ~Writes(rest[i], k)
  <2>1. \A i \in 1..Len(list) : ~Writes(list[i], k) BY <1>2, <1>5
  <2>2. NvsAfter(list, m)[k] = m[k] BY <2>1, Unwritten
  <2>3. NvsAfter(rest, n)[k] = n[k] BY <1>5, Unwritten
  <2> QED BY <1>5, <2>2, <2>3 DEF rest
<1> QED BY <1>3, <1>4, <1>5

LEMMA NvsTail ==
    ASSUME NEW list, Command(list), list # << >>, NEW m, NEW n,
           \A k \in Keys : n[k] = IF Writes(Head(list), k) THEN Head(list).value ELSE m[k]
    PROVE  NvsAfter(Tail(list), n) = NvsAfter(list, m)
<1> DEFINE rest == Tail(list)
<1>1. \A k \in Keys : NvsAfter(rest, n)[k] = NvsAfter(list, m)[k] BY KeyTail
<1> HIDE DEF rest
<1>2. NvsAfter(rest, n) = [k \in Keys |-> NvsAfter(rest, n)[k]] BY DEF NvsAfter
<1>3. NvsAfter(list, m) = [k \in Keys |-> NvsAfter(list, m)[k]] BY DEF NvsAfter
<1>4. NvsAfter(rest, n) = NvsAfter(list, m) BY <1>1, <1>2, <1>3, Zenon
<1> QED BY <1>4 DEF rest

LEMMA ProfilesTail ==
    ASSUME NEW list, Command(list), list # << >>, NEW p, NEW q,
           \A s \in Slots : q[s] = IF Sets(Head(list), s) THEN Profile(Head(list)) ELSE p[s]
    PROVE  ProfilesAfter(Tail(list), q) = ProfilesAfter(list, p)
<1> DEFINE rest == Tail(list)
<1>1. list \in Seq(Calls) BY DEF Command
<1>2. /\ Head(list) = list[1] /\ 1 \in 1..Len(list) /\ Command(rest)
      /\ \A i \in 1..Len(rest) : rest[i] = list[i + 1] /\ i + 1 \in 1..Len(list) /\ i + 1 # 1
      /\ \A i \in 1..Len(list) : i = 1 \/ (i - 1 \in 1..Len(rest) /\ list[i] = rest[i - 1])
      BY <1>1, HeadAndTail, CommandTail
<1> HIDE DEF rest
<1>3. ASSUME NEW s \in Slots PROVE ProfilesAfter(rest, q)[s] = ProfilesAfter(list, p)[s]
  <2>1. CASE Sets(Head(list), s)
    <3>1. ProfilesAfter(list, p)[s] = Profile(Head(list)) BY <1>2, <2>1, SetBy
    <3>2. \A i \in 1..Len(rest) : ~Sets(rest[i], s) BY <1>2, <2>1 DEF Command
    <3>3. ProfilesAfter(rest, q)[s] = q[s] BY <3>2, Unset
    <3> QED BY <2>1, <3>1, <3>3
  <2>2. CASE \E i \in 1..Len(rest) : Sets(rest[i], s)
    <3>1. PICK i \in 1..Len(rest) : Sets(rest[i], s) BY <2>2
    <3>2. ProfilesAfter(rest, q)[s] = Profile(rest[i]) BY <1>2, <3>1, SetBy
    <3>3. ProfilesAfter(list, p)[s] = Profile(list[i + 1]) BY <1>2, <3>1, SetBy
    <3> QED BY <1>2, <3>2, <3>3
  <2>3. CASE ~Sets(Head(list), s) /\ \A i \in 1..Len(rest) : ~Sets(rest[i], s)
    <3>1. \A i \in 1..Len(list) : ~Sets(list[i], s) BY <1>2, <2>3
    <3>2. ProfilesAfter(list, p)[s] = p[s] BY <3>1, Unset
    <3>3. ProfilesAfter(rest, q)[s] = q[s] BY <2>3, Unset
    <3> QED BY <2>3, <3>2, <3>3
  <2> QED BY <2>1, <2>2, <2>3
<1>4. ProfilesAfter(rest, q) = [s \in Slots |-> ProfilesAfter(rest, q)[s]] BY DEF ProfilesAfter
<1>5. ProfilesAfter(list, p) = [s \in Slots |-> ProfilesAfter(list, p)[s]] BY DEF ProfilesAfter
<1>6. ProfilesAfter(rest, q) = ProfilesAfter(list, p) BY <1>3, <1>4, <1>5, Zenon
<1> QED BY <1>6 DEF rest

LEMMA NothingLeft ==
    ASSUME NEW m, NEW p
    PROVE  /\ \A k \in Keys : NvsAfter(<< >>, m)[k] = m[k]
           /\ \A s \in Slots : ProfilesAfter(<< >>, p)[s] = p[s]
<1>1. 1..Len(<< >>) = {} OBVIOUS
<1> QED BY <1>1, Unwritten, Unset

\* Two lists one after the other.
LEMMA Concat ==
    ASSUME NEW S, NEW x \in Seq(S), NEW y \in Seq(S), NEW u \in Seq(S),
           Len(u) = Len(x) + Len(y),
           \A i \in 1..Len(x) : u[i] = x[i], \A i \in 1..Len(y) : u[Len(x) + i] = y[i]
    PROVE  x \o y = u
<1>1. x \o y \in Seq(S) /\ Len(x \o y) = Len(x) + Len(y) BY ConcatProperties
<1>2. \A i \in 1..Len(x) + Len(y) : (x \o y)[i] = IF i <= Len(x) THEN x[i] ELSE y[i - Len(x)]
      BY ConcatProperties
<1>3. ASSUME NEW i \in 1..Len(x) + Len(y) PROVE (x \o y)[i] = u[i]
  <2>1. CASE i <= Len(x) BY <1>2, <2>1
  <2>2. CASE i > Len(x)
    <3>1. i - Len(x) \in 1..Len(y) /\ Len(x) + (i - Len(x)) = i /\ ~(i <= Len(x)) BY <2>2
    <3>2. u[i] = y[i - Len(x)] BY <3>1
    <3> QED BY <1>2, <3>1, <3>2
  <2> QED BY <2>1, <2>2
<1>4. Len(x \o y) = Len(u) BY <1>1
<1> QED BY <1>1, <1>3, <1>4, SeqEqual

LEMMA OneAndOne ==
    ASSUME NEW a, NEW b
    PROVE  <<a>> \o <<b>> = <<a, b>>
<1> DEFINE S == {a, b}
           x == <<a>>
           y == <<b>>
           u == <<a, b>>
<1>1. x \in Seq(S) /\ y \in Seq(S) /\ u \in Seq(S) /\ Len(u) = Len(x) + Len(y) OBVIOUS
<1>2. Len(x) = 1 /\ Len(y) = 1 /\ x[1] = a /\ y[1] = b /\ u[1] = a /\ u[2] = b OBVIOUS
<1> HIDE DEF S, x, y, u
<1>3. (\A i \in 1..Len(x) : u[i] = x[i]) /\ (\A i \in 1..Len(y) : u[Len(x) + i] = y[i])
      BY <1>2
<1>4. x \o y = u BY <1>1, <1>3, Concat, Zenon
<1> QED BY <1>4 DEF x, y, u

LEMMA OneAndTwo ==
    ASSUME NEW a, NEW b, NEW c
    PROVE  <<a>> \o <<b, c>> = <<a, b, c>>
<1> DEFINE S == {a, b, c}
           x == <<a>>
           y == <<b, c>>
           u == <<a, b, c>>
<1>1. x \in Seq(S) /\ y \in Seq(S) /\ u \in Seq(S) /\ Len(u) = Len(x) + Len(y) OBVIOUS
<1>2. /\ \A i \in 1..Len(x) : u[i] = x[i]
      /\ \A i \in 1..Len(y) : u[Len(x) + i] = y[i]
      OBVIOUS
<1> HIDE DEF S, x, y, u
<1>3. x \o y = u BY <1>1, <1>2, Concat, Zenon
<1> QED BY <1>3 DEF x, y, u

LEMMA TwoAndTwo ==
    ASSUME NEW a, NEW b, NEW c, NEW d
    PROVE  <<a, b>> \o <<c, d>> = <<a, b, c, d>>
<1> DEFINE S == {a, b, c, d}
           x == <<a, b>>
           y == <<c, d>>
           u == <<a, b, c, d>>
<1>1. x \in Seq(S) /\ y \in Seq(S) /\ u \in Seq(S) /\ Len(u) = Len(x) + Len(y) OBVIOUS
<1>2. /\ \A i \in 1..Len(x) : u[i] = x[i]
      /\ \A i \in 1..Len(y) : u[Len(x) + i] = y[i]
      OBVIOUS
<1> HIDE DEF S, x, y, u
<1>3. x \o y = u BY <1>1, <1>2, Concat, Zenon
<1> QED BY <1>3 DEF x, y, u

LEMMA ThreeAndOne ==
    ASSUME NEW a, NEW b, NEW c, NEW d
    PROVE  <<a, b, c>> \o <<d>> = <<a, b, c, d>>
<1> DEFINE S == {a, b, c, d}
           x == <<a, b, c>>
           y == <<d>>
           u == <<a, b, c, d>>
<1>1. x \in Seq(S) /\ y \in Seq(S) /\ u \in Seq(S) /\ Len(u) = Len(x) + Len(y) OBVIOUS
<1>2. /\ \A i \in 1..Len(x) : u[i] = x[i]
      /\ \A i \in 1..Len(y) : u[Len(x) + i] = y[i]
      OBVIOUS
<1> HIDE DEF S, x, y, u
<1>3. x \o y = u BY <1>1, <1>2, Concat, Zenon
<1> QED BY <1>3 DEF x, y, u

LEMMA ThreeAndTwo ==
    ASSUME NEW a, NEW b, NEW c, NEW d, NEW e
    PROVE  <<a, b, c>> \o <<d, e>> = <<a, b, c, d, e>>
<1> DEFINE S == {a, b, c, d, e}
           x == <<a, b, c>>
           y == <<d, e>>
           u == <<a, b, c, d, e>>
<1>1. x \in Seq(S) /\ y \in Seq(S) /\ u \in Seq(S) /\ Len(u) = Len(x) + Len(y) OBVIOUS
<1>2. /\ \A i \in 1..Len(x) : u[i] = x[i]
      /\ \A i \in 1..Len(y) : u[Len(x) + i] = y[i]
      OBVIOUS
<1> HIDE DEF S, x, y, u
<1>3. x \o y = u BY <1>1, <1>2, Concat, Zenon
<1> QED BY <1>3 DEF x, y, u

LEMMA FiveAndOne ==
    ASSUME NEW a, NEW b, NEW c, NEW d, NEW e, NEW f
    PROVE  <<a, b, c, d, e>> \o <<f>> = <<a, b, c, d, e, f>>
<1> DEFINE S == {a, b, c, d, e, f}
           x == <<a, b, c, d, e>>
           y == <<f>>
           u == <<a, b, c, d, e, f>>
<1>1. x \in Seq(S) /\ y \in Seq(S) /\ u \in Seq(S) /\ Len(u) = Len(x) + Len(y) OBVIOUS
<1>2. /\ \A i \in 1..Len(x) : u[i] = x[i]
      /\ \A i \in 1..Len(y) : u[Len(x) + i] = y[i]
      OBVIOUS
<1> HIDE DEF S, x, y, u
<1>3. x \o y = u BY <1>1, <1>2, Concat, Zenon
<1> QED BY <1>3 DEF x, y, u

LEMMA SixCalls ==
    ASSUME NEW a, NEW b, NEW c, NEW d, NEW e, NEW f
    PROVE  <<a, b, c>> \o <<d, e>> \o <<f>> = <<a, b, c, d, e, f>>
<1>1. <<a, b, c>> \o <<d, e>> = <<a, b, c, d, e>> BY ThreeAndTwo, Zenon
<1>2. <<a, b, c, d, e>> \o <<f>> = <<a, b, c, d, e, f>> BY FiveAndOne, Zenon
<1> QED BY <1>1, <1>2, Zenon

LEMMA NoCalls ==
    ASSUME NEW a, NEW b, NEW c
    PROVE  /\ <<a, b, c>> \o << >> = <<a, b, c>> /\ <<a>> \o << >> = <<a>>
           /\ << >> \o <<a, b>> = <<a, b>>
<1> DEFINE S == {a, b, c}
<1>1. <<a, b, c>> \in Seq(S) /\ <<a>> \in Seq(S) /\ <<a, b>> \in Seq(S) OBVIOUS
<1> HIDE DEF S
<1> QED BY <1>1, ConcatEmptySeq, Zenon

LEMMA FourCalls ==
    ASSUME NEW a, NEW b, NEW c, NEW d
    PROVE  <<a, b, c>> \o << >> \o <<d>> = <<a, b, c, d>>
<1>1. <<a, b, c>> \o << >> = <<a, b, c>> BY NoCalls, Zenon
<1>2. <<a, b, c>> \o <<d>> = <<a, b, c, d>> BY ThreeAndOne, Zenon
<1> QED BY <1>1, <1>2, Zenon

LEMMA FourStops ==
    ASSUME NEW a, NEW b, NEW c, NEW d
    PROVE  <<a>> \o <<b>> \o <<c, d>> = <<a, b, c, d>>
<1>1. <<a>> \o <<b>> = <<a, b>> BY OneAndOne, Zenon
<1>2. <<a, b>> \o <<c, d>> = <<a, b, c, d>> BY TwoAndTwo, Zenon
<1> QED BY <1>1, <1>2, Zenon

LEMMA ThreeStops ==
    ASSUME NEW a, NEW b, NEW c
    PROVE  <<a>> \o << >> \o <<b, c>> = <<a, b, c>>
<1>1. <<a>> \o << >> = <<a>> BY NoCalls, Zenon
<1>2. <<a>> \o <<b, c>> = <<a, b, c>> BY OneAndTwo, Zenon
<1> QED BY <1>1, <1>2, Zenon

-----------------------------------------------------------------------------
(* The commands                                                            *)

\* Every call a command may make is one.
LEMMA AreCalls ==
    /\ \A k \in WifiKeys, c \in Creds : Put(k, c) \in Calls
    /\ \A k \in AuthKeys, v \in Secrets : Put(k, Str(v)) \in Calls /\ Put(k, Blob(v)) \in Calls
    /\ \A k \in Keys : RemoveKey(k) \in Calls
    /\ ClearNvs \in Calls /\ CallClearAll \in Calls /\ Reply \in Calls /\ Refuse \in Calls
    /\ \A s \in Slots, c \in Creds : CallConfigure(s, <<c, c>>) \in Calls
    /\ \A s \in Slots : CallClear(s) \in Calls
    /\ LedOn \in Calls /\ LedOff \in Calls
    /\ \A a \in Apps : Create(a) \in Calls /\ Delete(a) \in Calls /\ Stopped(a) \in Calls
<1>1. \A k \in WifiKeys, c \in Creds : Put(k, c) \in Calls BY DEF Put, Calls
<1>2. \A k \in AuthKeys, v \in Secrets : Put(k, Str(v)) \in Calls /\ Put(k, Blob(v)) \in Calls
      BY DEF Put, Calls, Str, Blob, Values
<1>3. \A k \in Keys : RemoveKey(k) \in Calls BY DEF RemoveKey, Calls
<1>4. ClearNvs \in Calls /\ CallClearAll \in Calls /\ Reply \in Calls /\ Refuse \in Calls
      BY DEF ClearNvs, CallClearAll, Reply, Refuse, Calls
<1>5. \A s \in Slots, c \in Creds : CallConfigure(s, <<c, c>>) \in Calls
      BY DEF CallConfigure, Calls
<1>6. \A s \in Slots : CallClear(s) \in Calls BY DEF CallClear, Calls
<1>7. LedOn \in Calls /\ LedOff \in Calls BY DEF LedOn, LedOff, Calls
<1>8. \A a \in Apps : Create(a) \in Calls /\ Delete(a) \in Calls /\ Stopped(a) \in Calls
      BY DEF Create, Delete, Stopped, Calls
<1> QED BY <1>1, <1>2, <1>3, <1>4, <1>5, <1>6, <1>7, <1>8

\* What each command is, call by call.
LEMMA StoreProfileCalls ==
    ASSUME NEW c \in Creds
    PROVE  /\ StoreProfile(0, c) =
                  <<CallConfigure(0, <<c, c>>), Put("wifi_ssid_0", c), Put("wifi_password_0", c),
                    Put("wifi_ssid", c), Put("wifi_password", c), Reply>>
           /\ StoreProfile(1, c) =
                  <<CallConfigure(1, <<c, c>>), Put("wifi_ssid_1", c), Put("wifi_password_1", c),
                    Reply>>
<1>1. StoreProfile(0, c) =
          <<CallConfigure(0, <<c, c>>), Put("wifi_ssid_0", c), Put("wifi_password_0", c)>>
          \o <<Put("wifi_ssid", c), Put("wifi_password", c)>> \o <<Reply>>
      BY WifiNames DEF StoreProfile
<1>2. StoreProfile(1, c) =
          <<CallConfigure(1, <<c, c>>), Put("wifi_ssid_1", c), Put("wifi_password_1", c)>>
          \o << >> \o <<Reply>>
      BY WifiNames DEF StoreProfile
<1>3. <<CallConfigure(0, <<c, c>>), Put("wifi_ssid_0", c), Put("wifi_password_0", c)>>
      \o <<Put("wifi_ssid", c), Put("wifi_password", c)>> \o <<Reply>> =
          <<CallConfigure(0, <<c, c>>), Put("wifi_ssid_0", c), Put("wifi_password_0", c),
            Put("wifi_ssid", c), Put("wifi_password", c), Reply>>
      BY SixCalls
<1>4. <<CallConfigure(1, <<c, c>>), Put("wifi_ssid_1", c), Put("wifi_password_1", c)>>
      \o << >> \o <<Reply>> =
          <<CallConfigure(1, <<c, c>>), Put("wifi_ssid_1", c), Put("wifi_password_1", c),
            Reply>>
      BY FourCalls
<1> QED BY <1>1, <1>2, <1>3, <1>4, Zenon

LEMMA ProfileClearCalls ==
    /\ ProfileClear(0) =
           <<CallClear(0), RemoveKey("wifi_ssid_0"), RemoveKey("wifi_password_0"),
             RemoveKey("wifi_ssid"), RemoveKey("wifi_password"), Reply>>
    /\ ProfileClear(1) =
           <<CallClear(1), RemoveKey("wifi_ssid_1"), RemoveKey("wifi_password_1"), Reply>>
<1>1. ProfileClear(0) =
          <<CallClear(0), RemoveKey("wifi_ssid_0"), RemoveKey("wifi_password_0")>>
          \o <<RemoveKey("wifi_ssid"), RemoveKey("wifi_password")>> \o <<Reply>>
      BY WifiNames DEF ProfileClear
<1>2. ProfileClear(1) =
          <<CallClear(1), RemoveKey("wifi_ssid_1"), RemoveKey("wifi_password_1")>>
          \o << >> \o <<Reply>>
      BY WifiNames DEF ProfileClear
<1>3. <<CallClear(0), RemoveKey("wifi_ssid_0"), RemoveKey("wifi_password_0")>>
      \o <<RemoveKey("wifi_ssid"), RemoveKey("wifi_password")>> \o <<Reply>> =
          <<CallClear(0), RemoveKey("wifi_ssid_0"), RemoveKey("wifi_password_0"),
            RemoveKey("wifi_ssid"), RemoveKey("wifi_password"), Reply>>
      BY SixCalls
<1>4. <<CallClear(1), RemoveKey("wifi_ssid_1"), RemoveKey("wifi_password_1")>>
      \o << >> \o <<Reply>> =
          <<CallClear(1), RemoveKey("wifi_ssid_1"), RemoveKey("wifi_password_1"), Reply>>
      BY FourCalls
<1> QED BY <1>1, <1>2, <1>3, <1>4, Zenon

LEMMA ConfigSetCalls ==
    ASSUME NEW v
    PROVE  /\ ConfigSet("ssh_password", v) =
                  <<Put("ssh_pw_hash", Blob(v)), RemoveKey("ssh_password"), Reply>>
           /\ ConfigSet("ssh_host_key", v) = <<Put("ssh_host_key", Blob(v)), Reply>>
           /\ ConfigSet("ssh_username", v) = <<Put("ssh_username", Str(v)), Reply>>
           /\ ConfigSet("wifi_ssid", v) = <<Put("wifi_ssid", v), Reply>>
           /\ ConfigSet("wifi_password", v) = <<Put("wifi_password", v), Reply>>
BY DEF ConfigSet, WifiKeys

LEMMA AppCalls ==
    /\ AppRun("led-blink") = IF task["led-blink"] \/ record["led-blink"] # "Stopped"
                             THEN <<Reply>> ELSE <<LedOn, Create("led-blink"), Reply>>
    /\ AppRun("diagnostics") = IF task["diagnostics"] \/ record["diagnostics"] # "Stopped"
                               THEN <<Reply>> ELSE <<Create("diagnostics"), Reply>>
    /\ AppStop("led-blink") =
           IF ~task["led-blink"] THEN <<Reply>>
           ELSE <<Delete("led-blink"), LedOff, Stopped("led-blink"), Reply>>
    /\ AppStop("diagnostics") =
           IF ~task["diagnostics"] THEN <<Reply>>
           ELSE <<Delete("diagnostics"), Stopped("diagnostics"), Reply>>
<1>1. <<LedOn>> \o <<Create("led-blink"), Reply>> = <<LedOn, Create("led-blink"), Reply>>
      BY OneAndTwo, Zenon
<1>2. << >> \o <<Create("diagnostics"), Reply>> = <<Create("diagnostics"), Reply>>
      BY NoCalls, Zenon
<1>3. <<Delete("led-blink")>> \o <<LedOff>> \o <<Stopped("led-blink"), Reply>> =
          <<Delete("led-blink"), LedOff, Stopped("led-blink"), Reply>>
      BY FourStops
<1>4. <<Delete("diagnostics")>> \o << >> \o <<Stopped("diagnostics"), Reply>> =
          <<Delete("diagnostics"), Stopped("diagnostics"), Reply>>
      BY ThreeStops
<1> QED BY <1>1, <1>2, <1>3, <1>4 DEF AppRun, AppStop

\* Every command changes each key and each profile once at most, and answers last.
LEMMA Sixfold ==
    ASSUME NEW list, NEW first, NEW a, NEW b, NEW c, NEW d,
           list = <<first, a, b, c, d, Reply>>, first \in Calls,
           a \in Calls, b \in Calls, c \in Calls, d \in Calls,
           first.op \in {"configure", "clear-slot"},
           {a.op, b.op, c.op, d.op} \subseteq {"put", "remove"},
           a.on # b.on, a.on # c.on, a.on # d.on, b.on # c.on, b.on # d.on, c.on # d.on
    PROVE  Command(list)
<1>1. list \in Seq(Calls) /\ Len(list) = 6 BY AreCalls
<1>2. /\ list[1] = first /\ list[2] = a /\ list[3] = b /\ list[4] = c /\ list[5] = d
      /\ list[6] = Reply /\ Reply.op = "reply"
      BY DEF Reply
<1>3. ASSUME NEW i \in 1..6, NEW j \in 1..6, NEW k \in Keys,
             Writes(list[i], k), Writes(list[j], k)
      PROVE  i = j
  <2>1. i \in {2, 3, 4, 5} /\ j \in {2, 3, 4, 5} BY <1>2, <1>3 DEF Writes
  <2>2. list[i].on = k /\ list[j].on = k BY <1>2, <1>3, <2>1 DEF Writes
  <2> QED BY <1>2, <2>1, <2>2
<1>4. ASSUME NEW i \in 1..6, NEW j \in 1..6, NEW s \in Slots,
             Sets(list[i], s), Sets(list[j], s)
      PROVE  i = j
  <2>1. i = 1 /\ j = 1 BY <1>2, <1>4 DEF Sets
  <2> QED BY <2>1
<1>5. ASSUME NEW i \in 1..6 PROVE list[i].op \in {"reply", "refuse"} <=> i = 6
      BY <1>2
<1> QED BY <1>1, <1>3, <1>4, <1>5 DEF Command

LEMMA Fourfold ==
    ASSUME NEW list, NEW first, NEW a, NEW b,
           list = <<first, a, b, Reply>>, first \in Calls, a \in Calls, b \in Calls,
           first.op \in {"configure", "clear-slot"},
           {a.op, b.op} \subseteq {"put", "remove"}, a.on # b.on
    PROVE  Command(list)
<1>1. list \in Seq(Calls) /\ Len(list) = 4 BY AreCalls
<1>2. /\ list[1] = first /\ list[2] = a /\ list[3] = b
      /\ list[4] = Reply /\ Reply.op = "reply"
      BY DEF Reply
<1>3. ASSUME NEW i \in 1..4, NEW j \in 1..4, NEW k \in Keys,
             Writes(list[i], k), Writes(list[j], k)
      PROVE  i = j
  <2>1. i \in {2, 3} /\ j \in {2, 3} BY <1>2, <1>3 DEF Writes
  <2>2. list[i].on = k /\ list[j].on = k BY <1>2, <1>3, <2>1 DEF Writes
  <2> QED BY <1>2, <2>1, <2>2
<1>4. ASSUME NEW i \in 1..4, NEW j \in 1..4, NEW s \in Slots,
             Sets(list[i], s), Sets(list[j], s)
      PROVE  i = j
  <2>1. i = 1 /\ j = 1 BY <1>2, <1>4 DEF Sets
  <2> QED BY <2>1
<1>5. ASSUME NEW i \in 1..4 PROVE list[i].op \in {"reply", "refuse"} <=> i = 4
      BY <1>2
<1> QED BY <1>1, <1>3, <1>4, <1>5 DEF Command

\* A list with one change of the store at most, and no change of a profile beside
\* that of clear().
LEMMA Short ==
    ASSUME NEW list \in Seq(Calls), NEW n \in Nat \ {0}, Len(list) = n,
           \A i \in 1..n : list[i].op \in {"reply", "refuse"} <=> i = n,
           \A i \in 1..n : list[i].op \in {"put", "remove", "clear-nvs"} =>
               i = 1 \/ (i = 2 /\ list[1].op = "put" /\ list[2].op = "remove"
                         /\ list[1].on # list[2].on),
           \A i \in 1..n : list[i].op \in {"configure", "clear-slot", "clear-wifi"} => i = 2
    PROVE  Command(list)
<1>1. ASSUME NEW i \in 1..n, NEW j \in 1..n, NEW k \in Keys,
             Writes(list[i], k), Writes(list[j], k)
      PROVE  i = j
  <2>1. /\ list[i].op \in {"put", "remove", "clear-nvs"}
        /\ list[j].op \in {"put", "remove", "clear-nvs"}
        BY <1>1 DEF Writes
  <2>2. CASE i # j
    <3>1. list[1].op = "put" /\ list[2].op = "remove" /\ list[1].on # list[2].on
          /\ i \in {1, 2} /\ j \in {1, 2}
          BY <2>1, <2>2
    <3>2. list[i].on = k /\ list[j].on = k BY <1>1, <3>1 DEF Writes
    <3> QED BY <2>2, <3>1, <3>2
  <2> QED BY <2>2
<1>2. ASSUME NEW i \in 1..n, NEW j \in 1..n, NEW s \in Slots,
             Sets(list[i], s), Sets(list[j], s)
      PROVE  i = j
  <2>1. i = 2 /\ j = 2 BY <1>2 DEF Sets
  <2> QED BY <2>1
<1> QED BY <1>1, <1>2 DEF Command

LEMMA StoreProfileIsOne ==
    ASSUME NEW s \in Slots, NEW c \in Creds
    PROVE  Command(StoreProfile(s, c))
<1>1. \A k \in WifiKeys : Put(k, c) \in Calls /\ Put(k, c).op = "put" /\ Put(k, c).on = k
      BY AreCalls DEF Put
<1>2. \A x \in Slots : /\ CallConfigure(x, <<c, c>>) \in Calls
                       /\ CallConfigure(x, <<c, c>>).op = "configure"
      BY AreCalls DEF CallConfigure
<1>3. CASE s = 0
  <2>1. StoreProfile(s, c) =
          <<CallConfigure(0, <<c, c>>), Put("wifi_ssid_0", c), Put("wifi_password_0", c),
            Put("wifi_ssid", c), Put("wifi_password", c), Reply>>
        BY <1>3, StoreProfileCalls
  <2>2. \A k \in {"wifi_ssid_0", "wifi_password_0", "wifi_ssid", "wifi_password"} :
            Put(k, c) \in Calls /\ Put(k, c).op = "put" /\ Put(k, c).on = k
        BY <1>1 DEF WifiKeys
  <2>3. CallConfigure(0, <<c, c>>) \in Calls /\ CallConfigure(0, <<c, c>>).op = "configure"
        BY <1>2, Distinct
  <2> QED BY <2>1, <2>2, <2>3, Sixfold
<1>4. CASE s = 1
  <2>1. StoreProfile(s, c) =
          <<CallConfigure(1, <<c, c>>), Put("wifi_ssid_1", c), Put("wifi_password_1", c), Reply>>
        BY <1>4, StoreProfileCalls
  <2>2. \A k \in {"wifi_ssid_1", "wifi_password_1"} :
            Put(k, c) \in Calls /\ Put(k, c).op = "put" /\ Put(k, c).on = k
        BY <1>1 DEF WifiKeys
  <2>3. CallConfigure(1, <<c, c>>) \in Calls /\ CallConfigure(1, <<c, c>>).op = "configure"
        BY <1>2, Distinct
  <2> QED BY <2>1, <2>2, <2>3, Fourfold
<1> QED BY <1>3, <1>4, Distinct

LEMMA ProfileClearIsOne ==
    ASSUME NEW s \in Slots
    PROVE  Command(ProfileClear(s))
<1>1. \A k \in Keys : /\ RemoveKey(k) \in Calls /\ RemoveKey(k).op = "remove"
                      /\ RemoveKey(k).on = k
      BY AreCalls DEF RemoveKey
<1>2. \A x \in Slots : CallClear(x) \in Calls /\ CallClear(x).op = "clear-slot"
      BY AreCalls DEF CallClear
<1>3. CASE s = 0
  <2>1. ProfileClear(s) =
            <<CallClear(0), RemoveKey("wifi_ssid_0"), RemoveKey("wifi_password_0"),
              RemoveKey("wifi_ssid"), RemoveKey("wifi_password"), Reply>>
        BY <1>3, ProfileClearCalls
  <2>2. \A k \in {"wifi_ssid_0", "wifi_password_0", "wifi_ssid", "wifi_password"} :
            RemoveKey(k) \in Calls /\ RemoveKey(k).op = "remove" /\ RemoveKey(k).on = k
        BY <1>1 DEF Keys, WifiKeys
  <2>3. CallClear(0) \in Calls /\ CallClear(0).op = "clear-slot" BY <1>2, Distinct
  <2> QED BY <2>1, <2>2, <2>3, Sixfold
<1>4. CASE s = 1
  <2>1. ProfileClear(s) =
            <<CallClear(1), RemoveKey("wifi_ssid_1"), RemoveKey("wifi_password_1"), Reply>>
        BY <1>4, ProfileClearCalls
  <2>2. \A k \in {"wifi_ssid_1", "wifi_password_1"} :
            RemoveKey(k) \in Calls /\ RemoveKey(k).op = "remove" /\ RemoveKey(k).on = k
        BY <1>1 DEF Keys, WifiKeys
  <2>3. CallClear(1) \in Calls /\ CallClear(1).op = "clear-slot" BY <1>2, Distinct
  <2> QED BY <2>1, <2>2, <2>3, Fourfold
<1> QED BY <1>3, <1>4, Distinct

LEMMA PairIsOne ==
    ASSUME NEW a \in Calls,
           a.op \in {"put", "remove", "led", "create", "delete", "stopped"}
    PROVE  Command(<<a, Reply>>)
<1> DEFINE list == <<a, Reply>>
<1>1. list \in Seq(Calls) /\ Len(list) = 2 /\ list[1] = a /\ list[2] = Reply
      /\ Reply.op = "reply"
      BY AreCalls DEF Reply
<1> HIDE DEF list
<1>2. 2 \in Nat \ {0} OBVIOUS
<1>3. \A i \in 1..2 : list[i].op \in {"reply", "refuse"} <=> i = 2 BY <1>1
<1>4. \A i \in 1..2 : list[i].op \in {"put", "remove", "clear-nvs"} =>
          i = 1 \/ (i = 2 /\ list[1].op = "put" /\ list[2].op = "remove"
                    /\ list[1].on # list[2].on)
      BY <1>1
<1>5. \A i \in 1..2 : list[i].op \in {"configure", "clear-slot", "clear-wifi"} => i = 2
      BY <1>1
<1>6. Command(list) BY <1>1, <1>2, <1>3, <1>4, <1>5, Short
<1> QED BY <1>6 DEF list

LEMMA TripleIsOne ==
    ASSUME NEW a \in Calls, NEW b \in Calls,
           \/ a.op = "put" /\ b.op = "remove" /\ a.on # b.on
           \/ a.op = "clear-nvs" /\ b.op = "clear-wifi"
           \/ {a.op, b.op} \subseteq {"led", "create", "delete", "stopped"}
    PROVE  Command(<<a, b, Reply>>)
<1> DEFINE list == <<a, b, Reply>>
<1>1. list \in Seq(Calls) /\ Len(list) = 3 /\ list[1] = a /\ list[2] = b /\ list[3] = Reply
      /\ Reply.op = "reply"
      BY AreCalls DEF Reply
<1> HIDE DEF list
<1>2. 3 \in Nat \ {0} OBVIOUS
<1>3. \A i \in 1..3 : list[i].op \in {"reply", "refuse"} <=> i = 3 BY <1>1
<1>4. \A i \in 1..3 : list[i].op \in {"put", "remove", "clear-nvs"} =>
          i = 1 \/ (i = 2 /\ list[1].op = "put" /\ list[2].op = "remove"
                    /\ list[1].on # list[2].on)
      BY <1>1
<1>5. \A i \in 1..3 : list[i].op \in {"configure", "clear-slot", "clear-wifi"} => i = 2
      BY <1>1
<1>6. Command(list) BY <1>1, <1>2, <1>3, <1>4, <1>5, Short
<1> QED BY <1>6 DEF list

LEMMA AloneIsOne == Command(<<Reply>>) /\ Command(<<Refuse>>) /\ Command(<< >>)
<1>1. <<Reply>> \in Seq(Calls) /\ Len(<<Reply>>) = 1 /\ <<Reply>>[1].op = "reply"
      BY AreCalls DEF Reply
<1>2. << >> \in Seq(Calls) /\ Len(<< >>) = 0 OBVIOUS
<1>3. 1 \in Nat \ {0} OBVIOUS
<1>4. Command(<<Reply>>) BY <1>1 DEF Command
<1>5. Command(<< >>) BY <1>2 DEF Command
<1>6. <<Refuse>> \in Seq(Calls) /\ Len(<<Refuse>>) = 1 /\ <<Refuse>>[1].op = "refuse"
      BY AreCalls DEF Refuse
<1>7. Command(<<Refuse>>) BY <1>6 DEF Command
<1> QED BY <1>4, <1>5, <1>7

LEMMA StopIsOne ==
    Command(<<Delete("led-blink"), LedOff, Stopped("led-blink"), Reply>>)
<1> DEFINE list == <<Delete("led-blink"), LedOff, Stopped("led-blink"), Reply>>
<1>1. /\ list \in Seq(Calls) /\ Len(list) = 4
      /\ list[1].op = "delete" /\ list[2].op = "led" /\ list[3].op = "stopped"
      /\ list[4].op = "reply"
      BY AreCalls, Distinct DEF Reply, Delete, LedOff, Stopped
<1> HIDE DEF list
<1>2. 4 \in Nat \ {0} OBVIOUS
<1>3. \A i \in 1..4 : list[i].op \in {"reply", "refuse"} <=> i = 4 BY <1>1
<1>4. \A i \in 1..4 : list[i].op \in {"put", "remove", "clear-nvs"} =>
          i = 1 \/ (i = 2 /\ list[1].op = "put" /\ list[2].op = "remove"
                    /\ list[1].on # list[2].on)
      BY <1>1
<1>5. \A i \in 1..4 : list[i].op \in {"configure", "clear-slot", "clear-wifi"} => i = 2
      BY <1>1
<1>6. Command(list) BY <1>1, <1>2, <1>3, <1>4, <1>5, Short
<1> QED BY <1>6 DEF list

\* A list that may be handed to loop().
LEMMA WifiConfigIsTool ==
    ASSUME NEW s \in Slots \cup {Nil}, NEW c \in Creds
    PROVE  WifiConfig(s, c) \in ToolCommands
<1>1. Parse[<<s, c>>] \in (Slots \X Creds) \cup {Nil} BY SketchAssumption
<1>2. CASE Accepted(s, c)
  <2>1. Parse[<<s, c>>][1] \in Slots /\ Parse[<<s, c>>][2] \in Creds
        BY <1>1, <1>2 DEF Accepted
  <2> QED BY <1>2, <2>1 DEF WifiConfig, ToolCommands
<1>3. CASE ~Accepted(s, c) BY <1>3 DEF WifiConfig, ToolCommands
<1> QED BY <1>2, <1>3

LEMMA LineExecutes ==
    ASSUME NEW line \in ToolLines
    PROVE  Executes(line) \in ToolCommands
<1>1. CASE line \in {WifiLine(s, c) : s \in Slots \cup {Nil}, c \in Creds}
  <2>1. PICK s \in Slots \cup {Nil}, c \in Creds : line = WifiLine(s, c) BY <1>1
  <2>2. Executes(line) = WifiConfig(s, c) BY <2>1 DEF Executes, WifiLine
  <2> QED BY <2>2, WifiConfigIsTool
<1>2. CASE line \in {SetLine(k, v) : k \in {"ssh_username", "ssh_password", "ssh_host_key"},
                                     v \in Secrets}
  <2>1. PICK k \in {"ssh_username", "ssh_password", "ssh_host_key"}, v \in Secrets :
            line = SetLine(k, v)
        BY <1>2
  <2>2. Executes(line) = ConfigSet(k, v) BY <2>1 DEF Executes, SetLine
  <2> QED BY <2>1, <2>2 DEF ToolCommands
<1> QED BY <1>1, <1>2 DEF ToolLines

LEMMA ToolCommandIsOne ==
    ASSUME NEW list \in ToolCommands
    PROVE  Command(list)
<1>1. CASE list = <<Refuse>> BY <1>1, AloneIsOne
<1>2. CASE list \in {StoreProfile(s, c) : s \in Slots, c \in Creds}
  <2>1. PICK s \in Slots, c \in Creds : list = StoreProfile(s, c) BY <1>2
  <2> QED BY <2>1, StoreProfileIsOne
<1>3. CASE list \in {ConfigSet(k, v) : k \in {"ssh_username", "ssh_password", "ssh_host_key"},
                                      v \in Secrets}
  <2>1. PICK k \in {"ssh_username", "ssh_password", "ssh_host_key"}, v \in Secrets :
            list = ConfigSet(k, v)
        BY <1>3
  <2>2. CASE k = "ssh_password"
    <3>1. list = <<Put("ssh_pw_hash", Blob(v)), RemoveKey("ssh_password"), Reply>>
          BY <2>1, <2>2, ConfigSetCalls
    <3>2. /\ Put("ssh_pw_hash", Blob(v)) \in Calls /\ RemoveKey("ssh_password") \in Calls
          /\ Put("ssh_pw_hash", Blob(v)).op = "put"
          /\ RemoveKey("ssh_password").op = "remove"
          /\ Put("ssh_pw_hash", Blob(v)).on # RemoveKey("ssh_password").on
      <4>1. Put("ssh_pw_hash", Blob(v)) \in Calls BY AreCalls DEF AuthKeys
      <4>2. RemoveKey("ssh_password") \in Calls BY AreCalls DEF Keys
      <4> QED BY <4>1, <4>2 DEF Put, RemoveKey
    <3> QED BY <3>1, <3>2, TripleIsOne
  <2>3. CASE k = "ssh_host_key"
    <3>1. list = <<Put("ssh_host_key", Blob(v)), Reply>> BY <2>1, <2>3, ConfigSetCalls
    <3>2. Put("ssh_host_key", Blob(v)) \in Calls /\ Put("ssh_host_key", Blob(v)).op = "put"
          BY AreCalls DEF AuthKeys, Put
    <3> QED BY <3>1, <3>2, PairIsOne
  <2>4. CASE k = "ssh_username"
    <3>1. list = <<Put("ssh_username", Str(v)), Reply>> BY <2>1, <2>4, ConfigSetCalls
    <3>2. Put("ssh_username", Str(v)) \in Calls /\ Put("ssh_username", Str(v)).op = "put"
          BY AreCalls DEF AuthKeys, Put
    <3> QED BY <3>1, <3>2, PairIsOne
  <2> QED BY <2>2, <2>3, <2>4
<1> QED BY <1>1, <1>2, <1>3 DEF ToolCommands

LEMMA ConfigClearIsOne == Command(ConfigClear)
<1>1. ClearNvs \in Calls /\ CallClearAll \in Calls /\ ClearNvs.op = "clear-nvs"
      /\ CallClearAll.op = "clear-wifi"
      BY AreCalls DEF ClearNvs, CallClearAll
<1> QED BY <1>1, TripleIsOne DEF ConfigClear

LEMMA OperatorCommandIsOne ==
    ASSUME NEW c \in NewCreds
    PROVE  Command(ConfigSet("wifi_ssid", c)) /\ Command(ConfigSet("wifi_password", c))
<1>1. c \in Creds BY SketchAssumption
<1>2. /\ Put("wifi_ssid", c) \in Calls /\ Put("wifi_password", c) \in Calls
      /\ Put("wifi_ssid", c).op = "put" /\ Put("wifi_password", c).op = "put"
      BY <1>1, AreCalls DEF Put, WifiKeys
<1> QED BY <1>2, ConfigSetCalls, PairIsOne

LEMMA TesterCommandIsOne ==
    ASSUME NEW a \in Apps
    PROVE  Command(AppRun(a)) /\ Command(AppStop(a))
<1>1. /\ LedOn \in Calls /\ LedOn.op = "led"
      /\ \A x \in Apps : /\ Create(x) \in Calls /\ Create(x).op = "create"
                         /\ Delete(x) \in Calls /\ Delete(x).op = "delete"
                         /\ Stopped(x) \in Calls /\ Stopped(x).op = "stopped"
      BY AreCalls DEF LedOn, Create, Delete, Stopped
<1>2. \A x \in Apps : Command(<<Create(x), Reply>>) BY <1>1, PairIsOne
<1>3. Command(<<LedOn, Create("led-blink"), Reply>>) BY <1>1, TripleIsOne, Distinct
<1>4. Command(<<Delete("diagnostics"), Stopped("diagnostics"), Reply>>)
      BY <1>1, TripleIsOne, Distinct
<1>5. CASE a = "led-blink" BY <1>3, <1>5, AppCalls, AloneIsOne, StopIsOne
<1>6. CASE a = "diagnostics" BY <1>2, <1>4, <1>6, AppCalls, AloneIsOne, Distinct
<1> QED BY <1>5, <1>6, Distinct

-----------------------------------------------------------------------------
(* What the commands do to profiles and store                              *)

\* A command keeps the profiles in RAM those of the store, and the SSIDs with
\* their passwords.
KeepsRam(list) ==
    \A m, p : InRam(m, p) => InRam(NvsAfter(list, m), ProfilesAfter(list, p))
KeepsWhole(list) == \A m : Whole(m) => Whole(NvsAfter(list, m))

LEMMA CredIsSome == \A c \in Creds : c # Nil /\ <<c, c>> # Nil
BY SketchAssumption DEF Values

LEMMA NamesAreKeys ==
    /\ {"wifi_ssid_0", "wifi_password_0", "wifi_ssid_1", "wifi_password_1",
        "wifi_ssid", "wifi_password"} \subseteq Keys
    /\ {"ssh_username", "ssh_pw_hash", "ssh_host_key"} \subseteq Keys
BY DEF Keys, WifiKeys, AuthKeys

\* What a store has, and what loadWifi() makes of it.
LEMMA Loaded ==
    ASSUME NEW m
    PROVE  /\ LoadWifi(m, 0) =
                 LET ssid == IF m["wifi_ssid_0"] = Nil THEN m["wifi_ssid"]
                             ELSE m["wifi_ssid_0"]
                     password == IF m["wifi_password_0"] = Nil THEN m["wifi_password"]
                                 ELSE m["wifi_password_0"]
                 IN  IF ssid # Nil /\ password # Nil THEN Clipped(<<ssid, password>>) ELSE Nil
           /\ LoadWifi(m, 1) =
                 IF m["wifi_ssid_1"] # Nil /\ m["wifi_password_1"] # Nil
                 THEN Clipped(<<m["wifi_ssid_1"], m["wifi_password_1"]>>) ELSE Nil
BY WifiNames DEF LoadWifi

\* A profile is loaded from its keys only.
LEMMA LoadedSame ==
    ASSUME NEW m, NEW n
    PROVE  /\ (\A k \in {"wifi_ssid_0", "wifi_password_0", "wifi_ssid", "wifi_password"} :
                  n[k] = m[k])
              => LoadWifi(n, 0) = LoadWifi(m, 0)
           /\ (\A k \in {"wifi_ssid_1", "wifi_password_1"} : n[k] = m[k])
              => LoadWifi(n, 1) = LoadWifi(m, 1)
<1>1. ASSUME \A k \in {"wifi_ssid_0", "wifi_password_0", "wifi_ssid", "wifi_password"} :
                 n[k] = m[k]
      PROVE  LoadWifi(n, 0) = LoadWifi(m, 0)
  <2>1. /\ n["wifi_ssid_0"] = m["wifi_ssid_0"] /\ n["wifi_password_0"] = m["wifi_password_0"]
        /\ n["wifi_ssid"] = m["wifi_ssid"] /\ n["wifi_password"] = m["wifi_password"]
        BY <1>1
  <2> QED BY <2>1, Loaded, Zenon
<1>2. ASSUME \A k \in {"wifi_ssid_1", "wifi_password_1"} : n[k] = m[k]
      PROVE  LoadWifi(n, 1) = LoadWifi(m, 1)
  <2>1. n["wifi_ssid_1"] = m["wifi_ssid_1"] /\ n["wifi_password_1"] = m["wifi_password_1"]
        BY <1>2
  <2> QED BY <2>1, Loaded, Zenon
<1> QED BY <1>1, <1>2

LEMMA StoreProfileKeeps ==
    ASSUME NEW s \in Slots, NEW c \in Creds
    PROVE  KeepsRam(StoreProfile(s, c)) /\ KeepsWhole(StoreProfile(s, c))
<1> SUFFICES ASSUME NEW m, NEW p
             PROVE  /\ InRam(m, p) => InRam(NvsAfter(StoreProfile(s, c), m),
                                            ProfilesAfter(StoreProfile(s, c), p))
                    /\ Whole(m) => Whole(NvsAfter(StoreProfile(s, c), m))
    BY DEF KeepsRam, KeepsWhole
<1> DEFINE list == StoreProfile(s, c)
           n == NvsAfter(list, m)
           q == ProfilesAfter(list, p)
<1>1. Command(list) BY StoreProfileIsOne
<1>2. c # Nil /\ <<c, c>> # Nil BY CredIsSome
<1>3. CASE s = 0
  <2>1. list = <<CallConfigure(0, <<c, c>>), Put("wifi_ssid_0", c), Put("wifi_password_0", c),
                 Put("wifi_ssid", c), Put("wifi_password", c), Reply>>
        BY <1>3, StoreProfileCalls
  <2>2. /\ Len(list) = 6 /\ list[1] = CallConfigure(0, <<c, c>>)
        /\ list[2] = Put("wifi_ssid_0", c) /\ list[3] = Put("wifi_password_0", c)
        /\ list[4] = Put("wifi_ssid", c) /\ list[5] = Put("wifi_password", c)
        /\ list[6] = Reply
        BY <2>1
  <2> HIDE DEF list
  <2>3. /\ Writes(list[2], "wifi_ssid_0") /\ Writes(list[3], "wifi_password_0")
        /\ Writes(list[4], "wifi_ssid") /\ Writes(list[5], "wifi_password")
        /\ \A i \in 1..6 : ~Writes(list[i], "wifi_ssid_1") /\ ~Writes(list[i], "wifi_password_1")
        /\ Sets(list[1], 0) /\ \A i \in 1..6 : ~Sets(list[i], 1)
        BY <2>2 DEF Writes, Sets, Put, CallConfigure, Reply
  <2>4. Profile(list[1]) = Clipped(<<c, c>>) /\ \A i \in 2..5 : list[i].value = c
        BY <2>2 DEF Put, CallConfigure, Profile
  <2>5. /\ n["wifi_ssid_0"] = c /\ n["wifi_password_0"] = c
        /\ n["wifi_ssid"] = c /\ n["wifi_password"] = c
    <3>1. 2 \in 1..Len(list) /\ 3 \in 1..Len(list) /\ 4 \in 1..Len(list) /\ 5 \in 1..Len(list)
          BY <2>2
    <3> QED BY <1>1, <2>3, <2>4, <3>1, WrittenBy, NamesAreKeys
  <2>6. n["wifi_ssid_1"] = m["wifi_ssid_1"] /\ n["wifi_password_1"] = m["wifi_password_1"]
        BY <2>2, <2>3, Unwritten, NamesAreKeys
  <2>7. q[0] = Clipped(<<c, c>>)
    <3>1. 1 \in 1..Len(list) /\ 0 \in Slots BY <2>2, Distinct
    <3> QED BY <1>1, <2>3, <2>4, <3>1, SetBy
  <2>8. q[1] = p[1] BY <2>2, <2>3, Unset, Distinct
  <2> HIDE DEF n, q
  <2>9. Whole(m) => Whole(n) BY <1>2, <2>5, <2>6, WifiNames, Distinct DEF Whole
  <2>10. InRam(m, p) => InRam(n, q)
         BY <1>2, <2>5, <2>6, <2>7, <2>8, Loaded, Distinct DEF InRam
  <2> QED BY <2>9, <2>10 DEF list, n, q
<1>4. CASE s = 1
  <2>1. list = <<CallConfigure(1, <<c, c>>), Put("wifi_ssid_1", c), Put("wifi_password_1", c),
                 Reply>>
        BY <1>4, StoreProfileCalls
  <2>2. /\ Len(list) = 4 /\ list[1] = CallConfigure(1, <<c, c>>)
        /\ list[2] = Put("wifi_ssid_1", c) /\ list[3] = Put("wifi_password_1", c)
        /\ list[4] = Reply
        BY <2>1
  <2> HIDE DEF list
  <2>3. /\ Writes(list[2], "wifi_ssid_1") /\ Writes(list[3], "wifi_password_1")
        /\ \A i \in 1..4, k \in {"wifi_ssid_0", "wifi_password_0", "wifi_ssid", "wifi_password"} :
               ~Writes(list[i], k)
        /\ Sets(list[1], 1) /\ \A i \in 1..4 : ~Sets(list[i], 0)
        BY <2>2 DEF Writes, Sets, Put, CallConfigure, Reply
  <2>4. Profile(list[1]) = Clipped(<<c, c>>) /\ list[2].value = c /\ list[3].value = c
        BY <2>2 DEF Put, CallConfigure, Profile
  <2>5. n["wifi_ssid_1"] = c /\ n["wifi_password_1"] = c
    <3>1. 2 \in 1..Len(list) /\ 3 \in 1..Len(list) BY <2>2
    <3> QED BY <1>1, <2>3, <2>4, <3>1, WrittenBy, NamesAreKeys
  <2>6. \A k \in {"wifi_ssid_0", "wifi_password_0", "wifi_ssid", "wifi_password"} : n[k] = m[k]
        BY <2>2, <2>3, Unwritten, NamesAreKeys
  <2>7. q[1] = Clipped(<<c, c>>)
    <3>1. 1 \in 1..Len(list) /\ 1 \in Slots BY <2>2, Distinct
    <3> QED BY <1>1, <2>3, <2>4, <3>1, SetBy
  <2>8. q[0] = p[0] BY <2>2, <2>3, Unset, Distinct
  <2> HIDE DEF n, q
  <2>9. Whole(m) => Whole(n) BY <1>2, <2>5, <2>6, WifiNames, Distinct DEF Whole
  <2>10. InRam(m, p) => InRam(n, q)
    <3>1. LoadWifi(n, 0) = LoadWifi(m, 0) BY <2>6, LoadedSame
    <3>2. LoadWifi(n, 1) = Clipped(<<c, c>>) BY <1>2, <2>5, Loaded
    <3> QED BY <2>7, <2>8, <3>1, <3>2, Distinct DEF InRam
  <2> QED BY <2>9, <2>10 DEF list, n, q
<1> QED BY <1>3, <1>4, Distinct

LEMMA ProfileClearKeeps ==
    ASSUME NEW s \in Slots
    PROVE  KeepsRam(ProfileClear(s)) /\ KeepsWhole(ProfileClear(s))
<1> SUFFICES ASSUME NEW m, NEW p
             PROVE  /\ InRam(m, p) => InRam(NvsAfter(ProfileClear(s), m),
                                            ProfilesAfter(ProfileClear(s), p))
                    /\ Whole(m) => Whole(NvsAfter(ProfileClear(s), m))
    BY DEF KeepsRam, KeepsWhole
<1> DEFINE list == ProfileClear(s)
           n == NvsAfter(list, m)
           q == ProfilesAfter(list, p)
<1>1. Command(list) BY ProfileClearIsOne
<1>2. CASE s = 0
  <2>1. list = <<CallClear(0), RemoveKey("wifi_ssid_0"), RemoveKey("wifi_password_0"),
                 RemoveKey("wifi_ssid"), RemoveKey("wifi_password"), Reply>>
        BY <1>2, ProfileClearCalls
  <2>2. /\ Len(list) = 6 /\ list[1] = CallClear(0)
        /\ list[2] = RemoveKey("wifi_ssid_0") /\ list[3] = RemoveKey("wifi_password_0")
        /\ list[4] = RemoveKey("wifi_ssid") /\ list[5] = RemoveKey("wifi_password")
        /\ list[6] = Reply
        BY <2>1
  <2> HIDE DEF list
  <2>3. /\ Writes(list[2], "wifi_ssid_0") /\ Writes(list[3], "wifi_password_0")
        /\ Writes(list[4], "wifi_ssid") /\ Writes(list[5], "wifi_password")
        /\ \A i \in 1..6 : ~Writes(list[i], "wifi_ssid_1") /\ ~Writes(list[i], "wifi_password_1")
        /\ Sets(list[1], 0) /\ \A i \in 1..6 : ~Sets(list[i], 1)
        BY <2>2 DEF Writes, Sets, RemoveKey, CallClear, Reply
  <2>4. Profile(list[1]) = Nil /\ \A i \in 2..5 : list[i].value = Nil
        BY <2>2 DEF RemoveKey, CallClear, Profile
  <2>5. /\ n["wifi_ssid_0"] = Nil /\ n["wifi_password_0"] = Nil
        /\ n["wifi_ssid"] = Nil /\ n["wifi_password"] = Nil
    <3>1. 2 \in 1..Len(list) /\ 3 \in 1..Len(list) /\ 4 \in 1..Len(list) /\ 5 \in 1..Len(list)
          BY <2>2
    <3> QED BY <1>1, <2>3, <2>4, <3>1, WrittenBy, NamesAreKeys
  <2>6. n["wifi_ssid_1"] = m["wifi_ssid_1"] /\ n["wifi_password_1"] = m["wifi_password_1"]
        BY <2>2, <2>3, Unwritten, NamesAreKeys
  <2>7. q[0] = Nil
    <3>1. 1 \in 1..Len(list) /\ 0 \in Slots BY <2>2, Distinct
    <3> QED BY <1>1, <2>3, <2>4, <3>1, SetBy
  <2>8. q[1] = p[1] BY <2>2, <2>3, Unset, Distinct
  <2> HIDE DEF n, q
  <2>9. Whole(m) => Whole(n) BY <2>5, <2>6, WifiNames, Distinct DEF Whole
  <2>10. InRam(m, p) => InRam(n, q)
         BY <2>5, <2>6, <2>7, <2>8, Loaded, Distinct DEF InRam
  <2> QED BY <2>9, <2>10 DEF list, n, q
<1>3. CASE s = 1
  <2>1. list = <<CallClear(1), RemoveKey("wifi_ssid_1"), RemoveKey("wifi_password_1"), Reply>>
        BY <1>3, ProfileClearCalls
  <2>2. /\ Len(list) = 4 /\ list[1] = CallClear(1)
        /\ list[2] = RemoveKey("wifi_ssid_1") /\ list[3] = RemoveKey("wifi_password_1")
        /\ list[4] = Reply
        BY <2>1
  <2> HIDE DEF list
  <2>3. /\ Writes(list[2], "wifi_ssid_1") /\ Writes(list[3], "wifi_password_1")
        /\ \A i \in 1..4, k \in {"wifi_ssid_0", "wifi_password_0", "wifi_ssid", "wifi_password"} :
               ~Writes(list[i], k)
        /\ Sets(list[1], 1) /\ \A i \in 1..4 : ~Sets(list[i], 0)
        BY <2>2 DEF Writes, Sets, RemoveKey, CallClear, Reply
  <2>4. Profile(list[1]) = Nil /\ \A i \in 2..3 : list[i].value = Nil
        BY <2>2 DEF RemoveKey, CallClear, Profile
  <2>5. n["wifi_ssid_1"] = Nil /\ n["wifi_password_1"] = Nil
    <3>1. 2 \in 1..Len(list) /\ 3 \in 1..Len(list) BY <2>2
    <3> QED BY <1>1, <2>3, <2>4, <3>1, WrittenBy, NamesAreKeys
  <2>6. \A k \in {"wifi_ssid_0", "wifi_password_0", "wifi_ssid", "wifi_password"} : n[k] = m[k]
        BY <2>2, <2>3, Unwritten, NamesAreKeys
  <2>7. q[1] = Nil
    <3>1. 1 \in 1..Len(list) /\ 1 \in Slots BY <2>2, Distinct
    <3> QED BY <1>1, <2>3, <2>4, <3>1, SetBy
  <2>8. q[0] = p[0] BY <2>2, <2>3, Unset, Distinct
  <2> HIDE DEF n, q
  <2>9. Whole(m) => Whole(n) BY <2>5, <2>6, WifiNames, Distinct DEF Whole
  <2>10. InRam(m, p) => InRam(n, q)
    <3>1. LoadWifi(n, 0) = LoadWifi(m, 0) BY <2>6, LoadedSame
    <3>2. LoadWifi(n, 1) = Nil BY <2>5, Loaded
    <3> QED BY <2>7, <2>8, <3>1, <3>2, Distinct DEF InRam
  <2> QED BY <2>9, <2>10 DEF list, n, q
<1> QED BY <1>2, <1>3, Distinct

LEMMA ConfigClearKeeps == KeepsRam(ConfigClear) /\ KeepsWhole(ConfigClear)
<1> SUFFICES ASSUME NEW m, NEW p
             PROVE  /\ InRam(m, p) =>
                           InRam(NvsAfter(ConfigClear, m), ProfilesAfter(ConfigClear, p))
                    /\ Whole(m) => Whole(NvsAfter(ConfigClear, m))
    BY DEF KeepsRam, KeepsWhole
<1> DEFINE list == <<ClearNvs, CallClearAll, Reply>>
           n == NvsAfter(list, m)
           q == ProfilesAfter(list, p)
<1>1. Command(list)
  <2>1. ClearNvs \in Calls /\ CallClearAll \in Calls /\ ClearNvs.op = "clear-nvs"
        /\ CallClearAll.op = "clear-wifi"
        BY AreCalls DEF ClearNvs, CallClearAll
  <2> QED BY <2>1, TripleIsOne
<1>2. Len(list) = 3 /\ list[1] = ClearNvs /\ list[2] = CallClearAll OBVIOUS
<1> HIDE DEF list
<1>3. /\ \A k \in Keys : Writes(list[1], k)
      /\ \A s \in Slots : Sets(list[2], s)
      /\ list[1].value = Nil /\ Profile(list[2]) = Nil
      BY <1>2 DEF Writes, Sets, Profile, ClearNvs, CallClearAll
<1>4. 1 \in 1..Len(list) /\ 2 \in 1..Len(list) BY <1>2
<1>5. \A k \in Keys : n[k] = Nil BY <1>1, <1>3, <1>4, WrittenBy
<1>6. \A s \in Slots : q[s] = Nil BY <1>1, <1>3, <1>4, SetBy
<1> HIDE DEF n, q
<1>7. /\ n["wifi_ssid_0"] = Nil /\ n["wifi_password_0"] = Nil /\ n["wifi_ssid_1"] = Nil
      /\ n["wifi_password_1"] = Nil /\ n["wifi_ssid"] = Nil /\ n["wifi_password"] = Nil
      BY <1>5, NamesAreKeys
<1>8. Whole(n) BY <1>7, WifiNames, Distinct DEF Whole
<1>9. InRam(n, q) BY <1>6, <1>7, Loaded, Distinct DEF InRam
<1> QED BY <1>8, <1>9 DEF list, n, q, ConfigClear

\* A list that leaves the Wi-Fi keys and the profiles alone.
LEMMA OthersKeep ==
    ASSUME NEW list,
           \A i \in 1..Len(list) : /\ \A k \in WifiKeys : ~Writes(list[i], k)
                                   /\ \A s \in Slots : ~Sets(list[i], s)
    PROVE  KeepsRam(list) /\ KeepsWhole(list)
<1> SUFFICES ASSUME NEW m, NEW p
             PROVE  /\ InRam(m, p) => InRam(NvsAfter(list, m), ProfilesAfter(list, p))
                    /\ Whole(m) => Whole(NvsAfter(list, m))
    BY DEF KeepsRam, KeepsWhole
<1> DEFINE n == NvsAfter(list, m)
           q == ProfilesAfter(list, p)
<1>1. WifiKeys \subseteq Keys BY DEF Keys
<1>2. \A k \in WifiKeys : n[k] = m[k] BY <1>1, Unwritten
<1>3. \A s \in Slots : q[s] = p[s] BY Unset
<1> HIDE DEF n, q
<1>4. /\ n["wifi_ssid_0"] = m["wifi_ssid_0"] /\ n["wifi_password_0"] = m["wifi_password_0"]
      /\ n["wifi_ssid_1"] = m["wifi_ssid_1"] /\ n["wifi_password_1"] = m["wifi_password_1"]
      /\ n["wifi_ssid"] = m["wifi_ssid"] /\ n["wifi_password"] = m["wifi_password"]
      BY <1>2 DEF WifiKeys
<1>5. Whole(m) => Whole(n) BY <1>4, WifiNames, Distinct DEF Whole
<1>6. InRam(m, p) => InRam(n, q)
  <2>1. \A s \in Slots : LoadWifi(n, s) = LoadWifi(m, s) BY <1>4, LoadedSame, Distinct
  <2> QED BY <1>3, <2>1 DEF InRam
<1> QED BY <1>5, <1>6 DEF n, q

LEMMA ConfigSetKeeps ==
    ASSUME NEW c
    PROVE  KeepsWhole(ConfigSet("wifi_ssid", c)) /\ KeepsWhole(ConfigSet("wifi_password", c))
<1> SUFFICES ASSUME NEW m, NEW k \in {"wifi_ssid", "wifi_password"}
             PROVE  Whole(m) => Whole(NvsAfter(<<Put(k, c), Reply>>, m))
    BY ConfigSetCalls DEF KeepsWhole
<1> DEFINE list == <<Put(k, c), Reply>>
           n == NvsAfter(list, m)
<1>1. Len(list) = 2 /\ list[1] = Put(k, c) /\ list[2] = Reply OBVIOUS
<1> HIDE DEF list
<1>2. \A i \in 1..2, x \in {"wifi_ssid_0", "wifi_password_0", "wifi_ssid_1", "wifi_password_1"} :
          ~Writes(list[i], x)
      BY <1>1 DEF Writes, Put, Reply
<1>3. \A x \in {"wifi_ssid_0", "wifi_password_0", "wifi_ssid_1", "wifi_password_1"} : n[x] = m[x]
      BY <1>1, <1>2, Unwritten, NamesAreKeys
<1> HIDE DEF n
<1>4. Whole(m) => Whole(n) BY <1>3, WifiNames, Distinct DEF Whole
<1> QED BY <1>4 DEF list, n

LEMMA ToolCommandKeeps ==
    ASSUME NEW list \in ToolCommands
    PROVE  KeepsRam(list) /\ KeepsWhole(list)
<1>1. CASE list = <<Refuse>>
  <2>1. Len(list) = 1 /\ list[1] = Refuse BY <1>1
  <2>2. \A i \in 1..1 : /\ \A x \in WifiKeys : ~Writes(list[i], x)
                        /\ \A s \in Slots : ~Sets(list[i], s)
        BY <2>1 DEF Writes, Sets, Refuse
  <2> QED BY <2>1, <2>2, OthersKeep
<1>2. CASE list \in {StoreProfile(s, c) : s \in Slots, c \in Creds}
  <2>1. PICK s \in Slots, c \in Creds : list = StoreProfile(s, c) BY <1>2
  <2> QED BY <2>1, StoreProfileKeeps
<1>3. CASE list \in {ConfigSet(k, v) : k \in {"ssh_username", "ssh_password", "ssh_host_key"},
                                      v \in Secrets}
  <2>1. PICK k \in {"ssh_username", "ssh_password", "ssh_host_key"}, v \in Secrets :
            list = ConfigSet(k, v)
        BY <1>3
  <2>2. CASE k = "ssh_password"
    <3>1. list = <<Put("ssh_pw_hash", Blob(v)), RemoveKey("ssh_password"), Reply>>
          BY <2>1, <2>2, ConfigSetCalls
    <3>2. Len(list) = 3 /\ list[1] = Put("ssh_pw_hash", Blob(v))
          /\ list[2] = RemoveKey("ssh_password") /\ list[3] = Reply
          BY <3>1
    <3>3. \A i \in 1..3 : /\ \A x \in WifiKeys : ~Writes(list[i], x)
                          /\ \A s \in Slots : ~Sets(list[i], s)
          BY <3>2 DEF Writes, Sets, Put, RemoveKey, Reply, WifiKeys
    <3> QED BY <3>2, <3>3, OthersKeep
  <2>3. CASE k \in {"ssh_host_key", "ssh_username"}
    <3>1. PICK x : list = <<Put(k, x), Reply>> BY <2>1, <2>3, ConfigSetCalls
    <3>2. Len(list) = 2 /\ list[1] = Put(k, x) /\ list[2] = Reply BY <3>1
    <3>3. \A i \in 1..2 : /\ \A y \in WifiKeys : ~Writes(list[i], y)
                          /\ \A s \in Slots : ~Sets(list[i], s)
          BY <2>3, <3>2 DEF Writes, Sets, Put, Reply, WifiKeys
    <3> QED BY <3>2, <3>3, OthersKeep
  <2> QED BY <2>2, <2>3
<1> QED BY <1>1, <1>2, <1>3 DEF ToolCommands

LEMMA TesterCommandKeeps ==
    ASSUME NEW a \in Apps
    PROVE  /\ KeepsRam(AppRun(a)) /\ KeepsWhole(AppRun(a))
           /\ KeepsRam(AppStop(a)) /\ KeepsWhole(AppStop(a))
<1> DEFINE quiet == {x \in Calls : x.op \in {"led", "create", "delete", "stopped", "reply"}}
<1>1. ASSUME NEW list \in Seq(quiet) PROVE KeepsRam(list) /\ KeepsWhole(list)
  <2>1. \A i \in 1..Len(list) : list[i] \in quiet OBVIOUS
  <2>2. \A i \in 1..Len(list) : /\ \A y \in WifiKeys : ~Writes(list[i], y)
                                /\ \A s \in Slots : ~Sets(list[i], s)
        BY <2>1 DEF Writes, Sets
  <2> QED BY <2>2, OthersKeep
<1>2. /\ LedOn \in quiet /\ LedOff \in quiet /\ Reply \in quiet
      /\ \A x \in Apps : Create(x) \in quiet /\ Delete(x) \in quiet /\ Stopped(x) \in quiet
      BY AreCalls DEF LedOn, LedOff, Reply, Create, Delete, Stopped
<1> HIDE DEF quiet
<1>3. AppRun(a) \in Seq(quiet)
  <2>1. <<Reply>> \in Seq(quiet) /\ <<Create(a), Reply>> \in Seq(quiet)
        /\ <<LedOn, Create(a), Reply>> \in Seq(quiet)
        BY <1>2
  <2> QED BY <2>1, AppCalls, Distinct
<1>4. AppStop(a) \in Seq(quiet)
  <2>1. <<Reply>> \in Seq(quiet) /\ <<Delete(a), Stopped(a), Reply>> \in Seq(quiet)
        /\ <<Delete(a), LedOff, Stopped(a), Reply>> \in Seq(quiet)
        BY <1>2
  <2> QED BY <2>1, AppCalls, Distinct
<1> QED BY <1>1, <1>3, <1>4

-----------------------------------------------------------------------------
(* The Wi-Fi service                                                       *)

LEMMA Wraps ==
    ASSUME NEW n \in Nat
    PROVE  n % TickMod \in 0..(TickMod - 1)
<1>1. TickMod \in Nat \ {0} BY WifiServiceAssumption
<1> QED BY <1>1

LEMMA Disconnected ==
    ASSUME Disconnect
    PROVE  link' = "idle" /\ joined' = Nil /\ LinkHolds'
BY DEF Disconnect, LinkHolds

\* Credentials that are cut are credentials.
LEMMA ClippedType ==
    ASSUME NEW p \in Creds \X Creds
    PROVE  Clipped(p) \in Creds \X Creds
<1>1. \A c \in Creds : Clip[c] \in Creds BY SketchAssumption
<1> QED BY <1>1 DEF Clipped

LEMMA Reconfigured ==
    ASSUME WifiShape, LinkHolds, NEW s \in Slots, NEW v \in Creds \X Creds, Configure(s, v)
    PROVE  WifiShape' /\ LinkHolds'
<1>1. Clipped(v) # Nil /\ Clipped(v) \in Creds \X Creds BY ClippedType, SketchAssumption
<1>2. /\ profiles' = [profiles EXCEPT ![s] = Clipped(v)]
      /\ nextAttemptAt' = now /\ state' = "Offline"
      /\ UNCHANGED <<nextProfile, activeSlot, link, joined, rejected, now>>
      BY DEF Configure, driver
<1>3. WifiShape' BY <1>1, <1>2 DEF WifiShape
<1>4. joined' \in Slots => (profiles[joined] # Nil => profiles'[joined'] # Nil)
      BY <1>1, <1>2 DEF WifiShape
<1>5. link' # "idle" => joined' \in Slots BY <1>2 DEF WifiShape
<1>6. LinkHolds' BY <1>2, <1>4, <1>5 DEF LinkHolds
<1> QED BY <1>3, <1>6

LEMMA Cleared ==
    ASSUME WifiShape, LinkHolds, NEW s \in Slots, ClearSlot(s)
    PROVE  WifiShape' /\ LinkHolds'
<1>1. /\ profiles' = [profiles EXCEPT ![s] = Nil]
      /\ UNCHANGED <<nextProfile, activeSlot, now>>
      BY DEF ClearSlot
<1>2. CASE s = activeSlot
  <2>1. Disconnect /\ state' = "Offline" /\ nextAttemptAt' = 0 BY <1>2 DEF ClearSlot
  <2>2. 0 \in 0..(TickMod - 1) BY WifiServiceAssumption
  <2>3. link' = "idle" /\ joined' = Nil /\ LinkHolds' BY <2>1, Disconnected
  <2>4. WifiShape' BY <1>1, <2>1, <2>2, <2>3 DEF WifiShape
  <2> QED BY <2>3, <2>4
<1>3. CASE s # activeSlot
  <2>1. UNCHANGED <<link, joined, rejected, state, nextAttemptAt>>
        BY <1>3 DEF ClearSlot, driver
  <2>2. WifiShape' BY <1>1, <2>1 DEF WifiShape
  <2>3. joined = activeSlot => profiles'[joined] = profiles[joined]
        BY <1>1, <1>3 DEF WifiShape
  <2>4. LinkHolds' BY <1>1, <2>1, <2>3 DEF LinkHolds
  <2> QED BY <2>2, <2>4
<1> QED BY <1>2, <1>3

LEMMA ClearedAll ==
    ASSUME WifiShape, ClearAll
    PROVE  WifiShape' /\ LinkHolds'
<1>1. /\ profiles' = [s \in Slots |-> Nil] /\ state' = "Offline" /\ nextAttemptAt' = 0
      /\ UNCHANGED <<nextProfile, activeSlot, now>> /\ Disconnect
      BY DEF ClearAll
<1>2. 0 \in 0..(TickMod - 1) BY WifiServiceAssumption
<1>3. link' = "idle" /\ joined' = Nil /\ LinkHolds' BY <1>1, Disconnected
<1>4. WifiShape' BY <1>1, <1>2, <1>3 DEF WifiShape
<1> QED BY <1>3, <1>4

LEMMA Ticked ==
    ASSUME WifiShape, LinkHolds, Tick
    PROVE  WifiShape' /\ LinkHolds' /\ profiles' = profiles
<1>1. ASSUME NEW s \in {"Offline", "Connecting", "Connected"}, Steady(s)
      PROVE  WifiShape' /\ LinkHolds' /\ profiles' = profiles
  <2>1. /\ state' = s
        /\ UNCHANGED <<profiles, nextAttemptAt, nextProfile, activeSlot, link, joined,
                       rejected, now>>
        BY <1>1 DEF Steady, driver
  <2>2. WifiShape' BY <2>1 DEF WifiShape
  <2>3. LinkHolds' BY <2>1 DEF LinkHolds
  <2> QED BY <2>1, <2>2, <2>3
<1>2. ASSUME EndAttempt PROVE WifiShape' /\ LinkHolds' /\ profiles' = profiles
  <2>1. /\ Disconnect /\ state' = "Offline" /\ nextAttemptAt' = (now + Cooldown) % TickMod
        /\ UNCHANGED <<profiles, nextProfile, activeSlot, now>>
        BY <1>2 DEF EndAttempt
  <2>2. now + Cooldown \in Nat BY WifiServiceAssumption DEF WifiShape
  <2>3. nextAttemptAt' \in 0..(TickMod - 1) BY <2>1, <2>2, Wraps
  <2>4. link' = "idle" /\ joined' = Nil /\ LinkHolds' BY <2>1, Disconnected
  <2>5. WifiShape' BY <2>1, <2>3, <2>4 DEF WifiShape
  <2> QED BY <2>1, <2>4, <2>5
<1>3. ASSUME NEW s \in Slots, Attempt(s)
      PROVE  WifiShape' /\ LinkHolds' /\ profiles' = profiles
  <2>1. /\ Down /\ s = NextProfile /\ Begin(s)
        /\ activeSlot' = s /\ state' = "Connecting"
        /\ nextAttemptAt' = (now + Retry) % TickMod /\ nextProfile' = Other(s)
        /\ UNCHANGED <<profiles, now>>
        BY <1>3 DEF Attempt
  <2>2. now + Retry \in Nat BY WifiServiceAssumption DEF WifiShape
  <2>3. nextAttemptAt' \in 0..(TickMod - 1) BY <2>1, <2>2, Wraps
  <2>4. Other(s) \in Slots BY DEF Other, Slots
  <2>5. profiles[s] # Nil
    <3>1. PICK x \in Slots : profiles[x] # Nil BY <2>1 DEF Down, Configured
    <3>2. nextProfile \in Slots BY DEF WifiShape
    <3>3. x = nextProfile \/ x = Other(nextProfile) BY <3>1, <3>2 DEF Slots, Other
    <3> QED BY <2>1, <3>1, <3>3 DEF NextProfile
  <2>6. CASE link = "joining"
    <3>1. rejected' = TRUE /\ link' = link /\ joined' = joined BY <2>1, <2>6 DEF Begin
    <3>2. WifiShape' BY <2>1, <2>3, <2>4, <3>1 DEF WifiShape
    <3>3. LinkHolds' BY <3>1 DEF LinkHolds
    <3> QED BY <2>1, <3>2, <3>3
  <2>7. CASE link # "joining"
    <3>1. link' = "joining" /\ joined' = s BY <2>1, <2>7 DEF Begin
    <3>2. s # Nil BY WifiServiceAssumption
    <3>3. WifiShape' BY <2>1, <2>3, <2>4, <3>1, <3>2 DEF WifiShape
    <3>4. LinkHolds' BY <2>1, <2>5, <3>1 DEF LinkHolds
    <3> QED BY <2>1, <3>3, <3>4
  <2> QED BY <2>6, <2>7
<1> QED BY <1>1, <1>2, <1>3
        DEF Tick, TickUnconfigured, TickConnected, TickConnecting, TickWaits

LEMMA LinkChanged ==
    ASSUME WifiShape, LinkHolds, Associates \/ Leases \/ Fails \/ Drops
    PROVE  WifiShape' /\ LinkHolds' /\ profiles' = profiles
<1>1. PICK from, to : /\ to \in {"associated", "online", "idle"}
                      /\ LinkChanges(from, to) /\ "idle" \notin from
      BY DEF Associates, Leases, Fails, Drops
<1>2. /\ link # "idle" /\ link' = to
      /\ UNCHANGED <<profiles, state, nextAttemptAt, nextProfile, activeSlot, now>>
      BY <1>1 DEF LinkChanges, service
<1>3. CASE to = "idle"
  <2>1. link' = "idle" /\ joined' = Nil BY <1>1, <1>2, <1>3 DEF LinkChanges
  <2>2. WifiShape' BY <1>2, <2>1 DEF WifiShape
  <2>3. LinkHolds' BY <2>1 DEF LinkHolds
  <2> QED BY <1>2, <2>2, <2>3
<1>4. CASE to # "idle"
  <2>1. joined' = joined /\ rejected' = rejected BY <1>1, <1>4 DEF LinkChanges
  <2>2. WifiShape' BY <1>1, <1>2, <1>4, <2>1 DEF WifiShape
  <2>3. LinkHolds' BY <1>2, <2>1 DEF LinkHolds
  <2> QED BY <1>2, <2>2, <2>3
<1> QED BY <1>3, <1>4

LEMMA Passed ==
    ASSUME WifiShape, LinkHolds, Passes
    PROVE  WifiShape' /\ LinkHolds' /\ profiles' = profiles
<1>1. /\ now' = (now + 1) % TickMod
      /\ UNCHANGED <<profiles, state, nextAttemptAt, nextProfile, activeSlot>>
      /\ UNCHANGED <<link, joined, rejected>>
      BY DEF Passes, service, driver
<1>2. now' \in 0..(TickMod - 1)
  <2>1. now + 1 \in Nat BY DEF WifiShape
  <2> QED BY <1>1, <2>1, Wraps
<1>3. WifiShape' BY <1>1, <1>2 DEF WifiShape
<1>4. LinkHolds' BY <1>1 DEF LinkHolds
<1> QED BY <1>1, <1>3, <1>4

-----------------------------------------------------------------------------
(* Between two commands                                                    *)

\* With nothing left to do, what will be is what is.
LEMMA NothingLeftMeans ==
    ASSUME NEW m, NEW p
    PROVE  /\ InRam(NvsAfter(<< >>, m), ProfilesAfter(<< >>, p)) <=> InRam(m, p)
           /\ Whole(NvsAfter(<< >>, m)) <=> Whole(m)
<1> DEFINE n == NvsAfter(<< >>, m)
           q == ProfilesAfter(<< >>, p)
<1>1. (\A k \in Keys : n[k] = m[k]) /\ (\A s \in Slots : q[s] = p[s]) BY NothingLeft
<1> HIDE DEF n, q
<1>2. /\ n["wifi_ssid_0"] = m["wifi_ssid_0"] /\ n["wifi_password_0"] = m["wifi_password_0"]
      /\ n["wifi_ssid_1"] = m["wifi_ssid_1"] /\ n["wifi_password_1"] = m["wifi_password_1"]
      /\ n["wifi_ssid"] = m["wifi_ssid"] /\ n["wifi_password"] = m["wifi_password"]
      BY <1>1, NamesAreKeys
<1>3. Whole(m) <=> Whole(n) BY <1>2, WifiNames, Distinct DEF Whole
<1>4. InRam(m, p) <=> InRam(n, q)
  <2>1. \A s \in Slots : LoadWifi(n, s) = LoadWifi(m, s) BY <1>2, LoadedSame, Distinct
  <2> QED BY <1>1, <2>1 DEF InRam
<1> QED BY <1>3, <1>4 DEF n, q

\* Where nothing that matters to a part of the invariant changes.
LEMMA SameCalls ==
    ASSUME IInv, UNCHANGED <<calls, task, record, led, dark>>
    PROVE  AtApp' /\ DarkIsOff'
<1>1. AtApp'
  <2>1. AtApp BY DEF IInv
  <2> QED BY <2>1, Zenon DEF AtApp, Agrees, AppCall
<1>2. DarkIsOff' BY Zenon DEF IInv, DarkIsOff
<1> QED BY <1>1, <1>2

LEMMA SamePlan ==
    ASSUME IInv, UNCHANGED <<calls, nvs, profiles>>
    PROVE  /\ up' = up /\ drift' = drift => RamWillBeStored'
           /\ torn' = torn => StaysWhole'
<1>1. RamWillBeStored /\ StaysWhole BY DEF IInv
<1>2. ASSUME up' = up, drift' = drift PROVE RamWillBeStored'
      BY <1>1, <1>2, Zenon DEF RamWillBeStored
<1>3. ASSUME torn' = torn PROVE StaysWhole' BY <1>1, <1>3, Zenon DEF StaysWhole
<1> QED BY <1>2, <1>3

LEMMA LoadedType ==
    ASSUME NEW m \in Stores, NEW s \in Slots
    PROVE  LoadWifi(m, s) \in {Nil} \cup (Creds \X Creds)
<1>1. \A k \in {"wifi_ssid_0", "wifi_password_0", "wifi_ssid_1", "wifi_password_1",
                "wifi_ssid", "wifi_password"} : m[k] \in Creds \cup {Nil}
      BY DEF Stores, WifiKeys
<1>2. \A p \in Creds \X Creds : Clipped(p) \in Creds \X Creds BY ClippedType
<1>3. CASE s = 0 BY <1>1, <1>2, <1>3, Loaded
<1>4. CASE s = 1 BY <1>1, <1>2, <1>4, Loaded
<1> QED BY <1>3, <1>4, Distinct

LEMMA SetupStep ==
    ASSUME IInv, Setup
    PROVE  IInv'
<1>1. /\ ~up /\ up' = TRUE /\ profiles' = [s \in Slots |-> LoadWifi(nvs, s)] /\ drift' = FALSE
      /\ UNCHANGED <<nvs, calls, state, nextAttemptAt, nextProfile, activeSlot, now, link,
                     joined, rejected>>
      /\ UNCHANGED <<task, record, led, dark, script, user, host, at, runs, unsaved>>
      /\ torn' = torn
      BY DEF Setup, driver, apps, tool
<1>2. calls = << >> /\ link = "idle" BY <1>1 DEF IInv, Shape
<1>3. profiles' \in [Slots -> {Nil} \cup (Creds \X Creds)]
      BY <1>1, LoadedType DEF IInv, Shape
<1>4. Shape' BY <1>1, <1>3 DEF IInv, Shape, WifiShape
<1>5. Flags' BY <1>1, Zenon DEF IInv, Flags
<1>6. AtTool' BY <1>1 DEF IInv, AtTool
<1>7. RamWillBeStored'
  <2>1. InRam(nvs, profiles') BY <1>1 DEF InRam
  <2>2. InRam(NvsAfter(<< >>, nvs), ProfilesAfter(<< >>, profiles')) BY <2>1, NothingLeftMeans
  <2> QED BY <1>1, <1>2, <2>2 DEF RamWillBeStored
<1>8. StaysWhole' BY <1>1, Zenon DEF IInv, StaysWhole
<1>9. AtApp' /\ DarkIsOff' BY <1>1, SameCalls
<1>10. LinkHolds' BY <1>1, <1>2 DEF LinkHolds
<1> QED BY <1>4, <1>5, <1>6, <1>7, <1>8, <1>9, <1>10 DEF IInv

LEMMA ResetStep ==
    ASSUME IInv, Reset
    PROVE  IInv'
<1>1. /\ up /\ up' = FALSE /\ calls' = << >>
      /\ profiles' = [s \in Slots |-> Nil] /\ state' = "Offline"
      /\ nextAttemptAt' = 0 /\ nextProfile' = 0 /\ activeSlot' = 0 /\ now' = 0
      /\ Disconnect
      /\ task' = [a \in Apps |-> FALSE] /\ record' = [a \in Apps |-> "Stopped"]
      /\ led' \in {led, FALSE} /\ dark' = FALSE
      /\ torn' = (torn \/ \E i \in 1..Len(calls) :
                              calls[i].op \in {"put", "remove", "clear-nvs"})
      /\ UNCHANGED <<nvs, script, user, host, at, runs, unsaved>>
      BY DEF Reset, tool
<1>2. link' = "idle" /\ joined' = Nil /\ LinkHolds' BY <1>1, Disconnected
<1>3. 0 \in 0..(TickMod - 1) /\ 0 \in Slots BY WifiServiceAssumption, Distinct
<1>4. WifiShape' BY <1>1, <1>2, <1>3 DEF WifiShape
<1>5. Shape' BY <1>1, <1>2, <1>4, AloneIsOne DEF IInv, Shape
<1>6. Flags'
  <2>1. rejected' \in BOOLEAN BY <1>1 DEF Disconnect
  <2>2. led' \in BOOLEAN /\ dark' \in BOOLEAN BY <1>1, Zenon DEF IInv, Flags
  <2>3. task' \in [Apps -> BOOLEAN] BY <1>1
  <2> QED BY <2>1, <2>2, <2>3 DEF Flags
<1>7. AtTool' BY <1>1 DEF IInv, AtTool
<1>8. RamWillBeStored' BY <1>1 DEF RamWillBeStored
<1>9. StaysWhole'
  <2>1. SUFFICES ASSUME ~torn' PROVE Whole(NvsAfter(calls', nvs')) BY DEF StaysWhole
  <2>2. ~torn /\ \A i \in 1..Len(calls) : calls[i].op \notin {"put", "remove", "clear-nvs"}
        BY <1>1, <2>1, Zenon
  <2>3. \A k \in Keys : NvsAfter(calls, nvs)[k] = nvs[k]
    <3>1. \A k \in Keys : \A i \in 1..Len(calls) : ~Writes(calls[i], k) BY <2>2 DEF Writes
    <3> QED BY <3>1, Unwritten
  <2>4. Whole(NvsAfter(calls, nvs)) BY <2>2, Zenon DEF IInv, StaysWhole
  <2>5. Whole(nvs)
    <3>1. \A s \in Slots : SsidKey[s] \in Keys /\ PasswordKey[s] \in Keys
          BY WifiNames, NamesAreKeys, Distinct
    <3> QED BY <2>3, <2>4, <3>1 DEF Whole
  <2> QED BY <1>1, <2>5, NothingLeftMeans
<1>10. AtApp'
  <2>1. \A a \in Apps : Agrees(a)' BY <1>1 DEF Agrees
  <2>2. \A i \in 1..Len(calls') : ~AppCall(calls'[i]) BY <1>1
  <2> QED BY <2>1, <2>2 DEF AtApp
<1>11. DarkIsOff' BY <1>1 DEF DarkIsOff
<1> QED BY <1>2, <1>5, <1>6, <1>7, <1>8, <1>9, <1>10, <1>11 DEF IInv

\* A command that begins.
LEMMA Begun ==
    ASSUME IInv, calls = << >>, up, up' = up, NEW list, Command(list), calls' = list,
           UNCHANGED <<nvs, profiles, torn>>, KeepsWhole(list),
           (KeepsRam(list) /\ (drift => drift')) \/ drift'
    PROVE  RamWillBeStored' /\ StaysWhole'
<1>1. RamWillBeStored'
  <2>1. SUFFICES ASSUME ~drift'
                 PROVE  InRam(NvsAfter(list, nvs), ProfilesAfter(list, profiles))
        BY DEF RamWillBeStored
  <2>2. KeepsRam(list) /\ ~drift BY <2>1, Zenon
  <2>3. InRam(NvsAfter(<< >>, nvs), ProfilesAfter(<< >>, profiles))
        BY <2>2, Zenon DEF IInv, RamWillBeStored
  <2>4. InRam(nvs, profiles) BY <2>3, NothingLeftMeans, Zenon
  <2> QED BY <2>2, <2>4, Zenon DEF KeepsRam
<1>2. StaysWhole'
  <2>1. SUFFICES ASSUME ~torn PROVE Whole(NvsAfter(list, nvs)) BY DEF StaysWhole
  <2>2. Whole(NvsAfter(<< >>, nvs)) BY <2>1, Zenon DEF IInv, StaysWhole
  <2>3. Whole(nvs) BY <2>2, NothingLeftMeans, Zenon
  <2> QED BY <2>3, Zenon DEF KeepsWhole
<1> QED BY <1>1, <1>2

\* Between two commands the apps agree.
LEMMA AtRest ==
    ASSUME AtApp, calls = << >>
    PROVE  \A a \in Apps : Agrees(a)
<1>1. /\ calls # <<LedOn, Create("led-blink"), Reply>>
      /\ \A a \in Apps : calls # <<Create(a), Reply>> /\ calls # <<Stopped(a), Reply>>
      /\ calls # <<Delete("led-blink"), LedOff, Stopped("led-blink"), Reply>>
      /\ calls # <<Delete("diagnostics"), Stopped("diagnostics"), Reply>>
      /\ calls # <<LedOff, Stopped("led-blink"), Reply>>
      OBVIOUS
<1> QED BY <1>1, Zenon DEF AtApp

\* A command that is about no app.
LEMMA BegunAside ==
    ASSUME IInv, calls = << >>, NEW list, Command(list), calls' = list,
           \A i \in 1..Len(list) : ~AppCall(list[i]),
           UNCHANGED <<task, record, led, dark>>
    PROVE  AtApp' /\ DarkIsOff'
<1>1. \A a \in Apps : Agrees(a) BY AtRest DEF IInv
<1>2. \A a \in Apps : Agrees(a)' BY <1>1, Zenon DEF Agrees
<1>3. AtApp' BY <1>2 DEF AtApp
<1>4. DarkIsOff' BY Zenon DEF IInv, DarkIsOff
<1> QED BY <1>3, <1>4

LEMMA AsideCalls ==
    /\ \A list \in ToolCommands : \A i \in 1..Len(list) : ~AppCall(list[i])
    /\ \A s \in Slots : \A i \in 1..Len(ProfileClear(s)) : ~AppCall(ProfileClear(s)[i])
    /\ \A i \in 1..Len(ConfigClear) : ~AppCall(ConfigClear[i])
    /\ \A k \in {"wifi_ssid", "wifi_password"}, c \in NewCreds :
           \A i \in 1..Len(ConfigSet(k, c)) : ~AppCall(ConfigSet(k, c)[i])
<1> DEFINE aside == {x \in Calls : ~AppCall(x)}
<1>1. \A list \in Seq(aside) : \A i \in 1..Len(list) : ~AppCall(list[i])
  <2>1. \A list \in Seq(aside) : \A i \in 1..Len(list) : list[i] \in aside OBVIOUS
  <2> QED BY <2>1
<1>2. /\ \A k \in WifiKeys, c \in Creds : Put(k, c) \in aside
      /\ \A k \in AuthKeys, v \in Secrets : Put(k, Str(v)) \in aside /\ Put(k, Blob(v)) \in aside
      /\ \A k \in Keys : RemoveKey(k) \in aside
      /\ ClearNvs \in aside /\ CallClearAll \in aside /\ Reply \in aside /\ Refuse \in aside
      /\ \A s \in Slots, c \in Creds : CallConfigure(s, <<c, c>>) \in aside
      /\ \A s \in Slots : CallClear(s) \in aside
      BY AreCalls DEF AppCall, Put, RemoveKey, ClearNvs, CallClearAll, Reply, Refuse,
                      CallConfigure, CallClear
<1> HIDE DEF aside
<1>3. ASSUME NEW s \in Slots, NEW c \in Creds PROVE StoreProfile(s, c) \in Seq(aside)
  <2>1. \A k \in {"wifi_ssid_0", "wifi_password_0", "wifi_ssid_1", "wifi_password_1",
                  "wifi_ssid", "wifi_password"} : Put(k, c) \in aside
        BY <1>2 DEF WifiKeys
  <2>2. CallConfigure(0, <<c, c>>) \in aside /\ CallConfigure(1, <<c, c>>) \in aside
        BY <1>2, Distinct
  <2>3. CASE s = 0
    <3>1. StoreProfile(s, c) =
              <<CallConfigure(0, <<c, c>>), Put("wifi_ssid_0", c), Put("wifi_password_0", c),
                Put("wifi_ssid", c), Put("wifi_password", c), Reply>>
          BY <2>3, StoreProfileCalls
    <3> QED BY <1>2, <2>1, <2>2, <3>1
  <2>4. CASE s = 1
    <3>1. StoreProfile(s, c) =
              <<CallConfigure(1, <<c, c>>), Put("wifi_ssid_1", c), Put("wifi_password_1", c),
                Reply>>
          BY <2>4, StoreProfileCalls
    <3> QED BY <1>2, <2>1, <2>2, <3>1
  <2> QED BY <2>3, <2>4, Distinct
<1>4. ASSUME NEW s \in Slots PROVE ProfileClear(s) \in Seq(aside)
  <2>1. \A k \in {"wifi_ssid_0", "wifi_password_0", "wifi_ssid_1", "wifi_password_1",
                  "wifi_ssid", "wifi_password"} : RemoveKey(k) \in aside
        BY <1>2, NamesAreKeys
  <2>2. CallClear(0) \in aside /\ CallClear(1) \in aside BY <1>2, Distinct
  <2>3. CASE s = 0
    <3>1. ProfileClear(s) =
              <<CallClear(0), RemoveKey("wifi_ssid_0"), RemoveKey("wifi_password_0"),
                RemoveKey("wifi_ssid"), RemoveKey("wifi_password"), Reply>>
          BY <2>3, ProfileClearCalls
    <3> QED BY <1>2, <2>1, <2>2, <3>1
  <2>4. CASE s = 1
    <3>1. ProfileClear(s) =
              <<CallClear(1), RemoveKey("wifi_ssid_1"), RemoveKey("wifi_password_1"), Reply>>
          BY <2>4, ProfileClearCalls
    <3> QED BY <1>2, <2>1, <2>2, <3>1
  <2> QED BY <2>3, <2>4, Distinct
<1>5. ASSUME NEW k \in {"ssh_username", "ssh_password", "ssh_host_key"}, NEW v \in Secrets
      PROVE  ConfigSet(k, v) \in Seq(aside)
  <2>1. /\ Put("ssh_pw_hash", Blob(v)) \in aside /\ Put("ssh_host_key", Blob(v)) \in aside
        /\ Put("ssh_username", Str(v)) \in aside
        BY <1>2 DEF AuthKeys
  <2>2. RemoveKey("ssh_password") \in aside BY <1>2 DEF Keys
  <2>3. /\ <<Put("ssh_pw_hash", Blob(v)), RemoveKey("ssh_password"), Reply>> \in Seq(aside)
        /\ <<Put("ssh_host_key", Blob(v)), Reply>> \in Seq(aside)
        /\ <<Put("ssh_username", Str(v)), Reply>> \in Seq(aside)
        BY <1>2, <2>1, <2>2
  <2> QED BY <2>3, ConfigSetCalls
<1>6. ASSUME NEW k \in {"wifi_ssid", "wifi_password"}, NEW c \in NewCreds
      PROVE  ConfigSet(k, c) \in Seq(aside)
  <2>1. Put(k, c) \in aside BY <1>2, SketchAssumption DEF WifiKeys
  <2>2. <<Put(k, c), Reply>> \in Seq(aside) BY <1>2, <2>1
  <2> QED BY <2>2, ConfigSetCalls
<1>7. ConfigClear \in Seq(aside)
  <2>1. <<ClearNvs, CallClearAll, Reply>> \in Seq(aside) BY <1>2
  <2> QED BY <2>1 DEF ConfigClear
<1>8. \A list \in ToolCommands : list \in Seq(aside)
  <2> SUFFICES ASSUME NEW list \in ToolCommands PROVE list \in Seq(aside) OBVIOUS
  <2>1. CASE list = <<Refuse>> BY <1>2, <2>1
  <2>2. CASE \E s \in Slots, c \in Creds : list = StoreProfile(s, c) BY <1>3, <2>2
  <2>3. CASE \E k \in {"ssh_username", "ssh_password", "ssh_host_key"}, v \in Secrets :
                 list = ConfigSet(k, v)
        BY <1>5, <2>3
  <2> QED BY <2>1, <2>2, <2>3, ToolCommandForms
<1>9. \A s \in Slots : ProfileClear(s) \in Seq(aside) BY <1>4
<1>10. \A k \in {"wifi_ssid", "wifi_password"}, c \in NewCreds : ConfigSet(k, c) \in Seq(aside)
       BY <1>6
<1> QED BY <1>1, <1>7, <1>8, <1>9, <1>10

LEMMA WifiSame ==
    ASSUME WifiShape, LinkHolds, UNCHANGED wifi
    PROVE  WifiShape' /\ LinkHolds' /\ profiles' = profiles /\ link' = link
           /\ rejected' = rejected
<1>1. /\ UNCHANGED <<profiles, state, nextAttemptAt, nextProfile, activeSlot, now>>
      /\ UNCHANGED <<link, joined, rejected>>
      BY DEF wifi, service, driver
<1>2. WifiShape' BY <1>1 DEF WifiShape
<1>3. LinkHolds' BY <1>1 DEF LinkHolds
<1> QED BY <1>1, <1>2, <1>3

LEMMA FlagsSame ==
    ASSUME Flags, UNCHANGED <<rejected, task, led, dark>>
    PROVE  Flags'
BY Zenon DEF Flags

\* The parts of the invariant of the step that begins a command, but for those
\* of the tool and of the apps.
LEMMA Starts ==
    ASSUME IInv, calls = << >>, up, up' = up, NEW list, Command(list), calls' = list,
           UNCHANGED <<nvs, wifi, task, record, led, dark, unsaved, torn>>,
           host' \in {"sending", "waiting", "done", "failed"}, KeepsWhole(list),
           (KeepsRam(list) /\ (drift => drift')) \/ drift'
    PROVE  Shape' /\ Flags' /\ RamWillBeStored' /\ StaysWhole' /\ DarkIsOff' /\ LinkHolds'
<1>1. WifiShape' /\ LinkHolds' /\ profiles' = profiles /\ link' = link /\ rejected' = rejected
      BY WifiSame DEF IInv, Shape
<1>2. Shape' BY <1>1 DEF IInv, Shape
<1>3. Flags' BY <1>1, FlagsSame DEF IInv
<1>4. UNCHANGED <<nvs, profiles, torn>> BY <1>1
<1>5. RamWillBeStored' /\ StaysWhole' BY <1>4, Begun, Zenon
<1>6. DarkIsOff' BY Zenon DEF IInv, DarkIsOff
<1> QED BY <1>1, <1>2, <1>3, <1>5, <1>6

LEMMA ToolSendsStep ==
    ASSUME IInv, ToolSends
    PROVE  IInv'
<1>1. /\ user = "tool" /\ calls = << >> /\ calls' = (IF up THEN Ran(at) ELSE << >>)
      /\ host' = "waiting"
      /\ UNCHANGED <<nvs, up, wifi, task, record, led, dark, script, user, at>>
      /\ UNCHANGED <<unsaved, torn, drift>>
      BY DEF ToolSends, Ran, apps, history
<1>2. script \in Seq(ToolLines) \ {<< >>} /\ at \in 1..Len(script)
      BY <1>1 DEF IInv, AtTool
<1>3. AtTool' BY <1>1, <1>2 DEF AtTool
<1>4. CASE up
  <2> DEFINE list == Ran(at)
  <2>1. list \in ToolCommands BY <1>2, LineExecutes DEF Ran
  <2>2. calls' = list BY <1>1, <1>4
  <2> HIDE DEF list
  <2>3. Command(list) /\ KeepsRam(list) /\ KeepsWhole(list)
        BY <2>1, ToolCommandIsOne, ToolCommandKeeps
  <2>4. \A i \in 1..Len(list) : ~AppCall(list[i]) BY <2>1, AsideCalls
  <2>5. AtApp' /\ DarkIsOff' BY <1>1, <2>2, <2>3, <2>4, BegunAside
  <2>6. (KeepsRam(list) /\ (drift => drift')) \/ drift' BY <1>1, <2>3
  <2>7. Shape' /\ Flags' /\ RamWillBeStored' /\ StaysWhole' /\ LinkHolds'
        BY <1>1, <1>4, <2>2, <2>3, <2>6, Starts
  <2> QED BY <1>3, <2>5, <2>7 DEF IInv
<1>5. CASE ~up
  <2>1. calls' = calls BY <1>1, <1>5
  <2>2. /\ WifiShape' /\ LinkHolds' /\ profiles' = profiles /\ link' = link
        /\ rejected' = rejected
        BY <1>1, WifiSame DEF IInv, Shape
  <2>3. Shape' BY <1>1, <2>1, <2>2 DEF IInv, Shape
  <2>4. Flags' BY <1>1, <2>2, FlagsSame DEF IInv
  <2>5. AtApp' /\ DarkIsOff' BY <1>1, <2>1, SameCalls
  <2>6. RamWillBeStored' /\ StaysWhole' BY <1>1, <2>1, <2>2, SamePlan
  <2> QED BY <1>3, <2>2, <2>3, <2>4, <2>5, <2>6 DEF IInv
<1> QED BY <1>4, <1>5

\* A step that leaves device and calls as they are.
LEMMA HostStep ==
    ASSUME IInv, UNCHANGED <<nvs, up, calls, wifi, apps, script, user, history>>,
           host' \in {"sending", "waiting", "done", "failed"},
           user = "tool" => at' \in 1..Len(script) /\ (calls # << >> => host' = "waiting")
    PROVE  IInv'
<1>1. /\ UNCHANGED <<nvs, up, calls, wifi, task, record, led, dark, script, user>>
      /\ UNCHANGED <<unsaved, torn, drift>>
      BY DEF apps, history
<1>2. WifiShape' /\ LinkHolds' /\ profiles' = profiles /\ link' = link /\ rejected' = rejected
      BY <1>1, WifiSame DEF IInv, Shape
<1>3. Shape' BY <1>1, <1>2 DEF IInv, Shape
<1>4. Flags' BY <1>1, <1>2, FlagsSame DEF IInv
<1>5. AtTool' BY <1>1 DEF IInv, AtTool
<1>6. AtApp' /\ DarkIsOff' BY <1>1, SameCalls
<1>7. RamWillBeStored' /\ StaysWhole' BY <1>1, <1>2, SamePlan
<1> QED BY <1>2, <1>3, <1>4, <1>5, <1>6, <1>7 DEF IInv

LEMMA TimeoutStep ==
    ASSUME IInv, Timeout \/ RunAgain \/ UNCHANGED vars
    PROVE  IInv'
<1>1. CASE Timeout
  <2>1. /\ calls = << >> /\ host' = "failed"
        /\ UNCHANGED <<nvs, up, calls, wifi, apps, script, user, at, history>>
        BY <1>1 DEF Timeout
  <2> QED BY <2>1, HostStep DEF IInv, AtTool
<1>2. CASE RunAgain
  <2>1. /\ host = "failed" /\ host' = "sending" /\ at' = 1
        /\ UNCHANGED <<nvs, up, calls, wifi, apps, script, user, history>>
        BY <1>2 DEF RunAgain
  <2>2. user = "tool" => 1 \in 1..Len(script) BY DEF IInv, AtTool
  <2> QED BY <2>1, <2>2, HostStep DEF IInv, AtTool
<1>3. CASE UNCHANGED vars
  <2>1. UNCHANGED <<nvs, up, calls, wifi, apps, script, user, host, at, history>>
        BY <1>3 DEF vars, tool
  <2> QED BY <2>1, HostStep DEF IInv, AtTool, Shape
<1> QED BY <1>1, <1>2, <1>3

\* What a typed command changes, but for where the apps stand.
LEMMA Typed ==
    ASSUME IInv, NEW who \in {"operator", "tester"}, NEW list, Types(who, list),
           Command(list), KeepsWhole(list),
           KeepsRam(list) \/ (list[1].op = "put" /\ list[1].on \in WifiKeys)
    PROVE  /\ calls = << >> /\ calls' = list
           /\ UNCHANGED <<task, record, led, dark>>
           /\ Shape' /\ Flags' /\ AtTool' /\ RamWillBeStored' /\ StaysWhole' /\ DarkIsOff'
           /\ LinkHolds'
<1>1. /\ user = who /\ up /\ calls = << >> /\ calls' = list
      /\ UNCHANGED <<nvs, up, wifi, task, record, led, dark, script, user, host, at>>
      /\ UNCHANGED <<unsaved, torn>>
      BY DEF Types, Idle, apps, tool
<1>2. drift' = (drift \/ (list[1].op = "put" /\ list[1].on \in WifiKeys)) BY DEF Types
<1>3. (KeepsRam(list) /\ (drift => drift')) \/ drift' BY <1>2, Zenon
<1>4. host' \in {"sending", "waiting", "done", "failed"} BY <1>1 DEF IInv, Shape
<1>5. Shape' /\ Flags' /\ RamWillBeStored' /\ StaysWhole' /\ DarkIsOff' /\ LinkHolds'
      BY <1>1, <1>3, <1>4, Starts
<1>6. AtTool' BY <1>1 DEF AtTool
<1> QED BY <1>1, <1>5, <1>6

LEMMA TypedAside ==
    ASSUME IInv, NEW list, Types("operator", list), Command(list), KeepsWhole(list),
           KeepsRam(list) \/ (list[1].op = "put" /\ list[1].on \in WifiKeys),
           \A i \in 1..Len(list) : ~AppCall(list[i])
    PROVE  IInv'
<1>1. /\ calls = << >> /\ calls' = list
      /\ UNCHANGED <<task, record, led, dark>>
      /\ Shape' /\ Flags' /\ AtTool' /\ RamWillBeStored' /\ StaysWhole' /\ DarkIsOff'
      /\ LinkHolds'
      BY Typed
<1>2. AtApp' BY <1>1, BegunAside
<1> QED BY <1>1, <1>2 DEF IInv

\* The commands on the apps, from the rest.
LEMMA TypedApp ==
    ASSUME IInv, NEW a \in Apps, Types("tester", AppRun(a)) \/ Types("tester", AppStop(a))
    PROVE  IInv'
<1>1. calls' \in {AppRun(a), AppStop(a)} BY DEF Types
<1>2. /\ calls = << >>
      /\ UNCHANGED <<task, record, led, dark>>
      /\ Shape' /\ Flags' /\ AtTool' /\ RamWillBeStored' /\ StaysWhole' /\ DarkIsOff'
      /\ LinkHolds'
      BY Typed, TesterCommandIsOne, TesterCommandKeeps
<1>3. \A x \in Apps : Agrees(x) BY <1>2, AtRest DEF IInv
<1>4. \A x \in Apps : Agrees(x)' BY <1>2, <1>3, Zenon DEF Agrees
<1>5. task' = task /\ dark' = dark BY <1>2
<1>6. AtApp'
  <2>1. CASE calls' = <<Reply>>
    <3>1. \A i \in 1..Len(calls') : ~AppCall(calls'[i]) BY <2>1 DEF AppCall, Reply
    <3> QED BY <1>4, <3>1, Zenon DEF AtApp
  <2>2. CASE a = "led-blink" /\ calls' = <<LedOn, Create("led-blink"), Reply>>
             /\ ~task["led-blink"]
    BY <1>4, <1>5, <2>2, Zenon DEF AtApp
  <2>3. CASE a = "diagnostics" /\ calls' = <<Create("diagnostics"), Reply>>
             /\ ~task["diagnostics"]
    <3>1. "diagnostics" \in Apps /\ "diagnostics" # "led-blink" BY Distinct
    <3> QED BY <1>4, <1>5, <2>3, <3>1, Zenon DEF AtApp
  <2>4. CASE a = "led-blink" /\ task["led-blink"]
             /\ calls' = <<Delete("led-blink"), LedOff, Stopped("led-blink"), Reply>>
    <3>1. ~dark BY <2>4, Zenon DEF IInv, DarkIsOff
    <3>2. ~dark' BY <1>5, <3>1, Zenon
    <3> QED BY <1>4, <2>4, <3>2, Zenon DEF AtApp
  <2>5. CASE a = "diagnostics" /\ task["diagnostics"]
             /\ calls' = <<Delete("diagnostics"), Stopped("diagnostics"), Reply>>
    BY <1>4, <2>5, Zenon DEF AtApp
  <2>6. CASE a = "led-blink" BY <1>1, <2>1, <2>2, <2>4, <2>6, AppCalls
  <2>7. CASE a = "diagnostics" BY <1>1, <2>1, <2>3, <2>5, <2>7, AppCalls
  <2> QED BY <2>6, <2>7, Distinct
<1> QED BY <1>2, <1>6 DEF IInv

LEMMA TypeStep ==
    ASSUME IInv, Type
    PROVE  IInv'
<1>1. ASSUME NEW s \in Slots, Types("operator", ProfileClear(s)) PROVE IInv'
      BY <1>1, TypedAside, ProfileClearIsOne, ProfileClearKeeps, AsideCalls
<1>2. ASSUME NEW s \in Slots, NEW c \in NewCreds, Types("operator", WifiConfig(s, c))
      PROVE  IInv'
  <2>1. WifiConfig(s, c) \in ToolCommands BY SketchAssumption, WifiConfigIsTool
  <2> QED BY <1>2, <2>1, TypedAside, ToolCommandIsOne, ToolCommandKeeps, AsideCalls
<1>3. ASSUME NEW k \in {"wifi_ssid", "wifi_password"}, NEW c \in NewCreds,
             Types("operator", ConfigSet(k, c))
      PROVE  IInv'
  <2> DEFINE list == ConfigSet(k, c)
  <2>1. list = <<Put(k, c), Reply>> BY ConfigSetCalls
  <2>2. list[1].op = "put" /\ list[1].on \in WifiKeys BY <2>1 DEF Put, WifiKeys
  <2>3. Command(list) /\ KeepsWhole(list) BY OperatorCommandIsOne, ConfigSetKeeps
  <2>4. \A i \in 1..Len(list) : ~AppCall(list[i]) BY AsideCalls
  <2> HIDE DEF list
  <2>5. Types("operator", list) BY <1>3 DEF list
  <2> QED BY <2>2, <2>3, <2>4, <2>5, TypedAside
<1>4. ASSUME Types("operator", ConfigClear) PROVE IInv'
      BY <1>4, TypedAside, ConfigClearIsOne, ConfigClearKeeps, AsideCalls
<1>5. ASSUME NEW a \in Apps, Types("tester", AppRun(a)) \/ Types("tester", AppStop(a))
      PROVE  IInv'
      BY <1>5, TypedApp
<1> QED BY <1>1, <1>2, <1>3, <1>4, <1>5 DEF Type

\* The steps of the LED's task, of tick(), of the driver and of the clock.
LEMMA BlinkStep ==
    ASSUME IInv, Blink
    PROVE  IInv'
<1>1. /\ task["led-blink"] /\ led' = ~led
      /\ UNCHANGED <<nvs, up, calls, wifi, task, record, dark, script, user, host, at>>
      /\ UNCHANGED <<unsaved, torn, drift>>
      BY DEF Blink, tool, history
<1>2. WifiShape' /\ LinkHolds' /\ profiles' = profiles /\ link' = link /\ rejected' = rejected
      BY <1>1, WifiSame DEF IInv, Shape
<1>3. Shape' BY <1>1, <1>2 DEF IInv, Shape
<1>4. Flags'
  <2>1. led' \in BOOLEAN BY <1>1, Zenon
  <2>2. UNCHANGED <<rejected, task, dark>> BY <1>1, <1>2
  <2>3. Flags BY DEF IInv
  <2> QED BY <2>1, <2>2, <2>3, Zenon DEF Flags
<1>5. AtTool' BY <1>1 DEF IInv, AtTool
<1>6. RamWillBeStored' /\ StaysWhole' BY <1>1, <1>2, SamePlan
<1>7. DarkIsOff' BY <1>1, Zenon DEF IInv, DarkIsOff
<1>8. AtApp'
  <2>1. AtApp BY DEF IInv
  <2>2. UNCHANGED <<calls, task, record, dark>> BY <1>1
  <2>3. ASSUME NEW a \in Apps, ~task[a] PROVE a # "led-blink" BY <1>1, <2>3
  <2>4. \A a \in Apps : ~task'[a] => (a = "led-blink" => ~led') BY <2>2, <2>3, Zenon
  <2> QED BY <2>1, <2>2, <2>4, Zenon DEF AtApp, Agrees, AppCall
<1> QED BY <1>2, <1>3, <1>4, <1>5, <1>6, <1>7, <1>8 DEF IInv

LEMMA ServiceStep ==
    ASSUME IInv, Idle, Aside, WifiShape', LinkHolds', profiles' = profiles,
           rejected' \in BOOLEAN
    PROVE  IInv'
<1>1. /\ up /\ UNCHANGED <<nvs, up, calls, task, record, led, dark, script, user, host, at>>
      /\ UNCHANGED <<unsaved, torn, drift>>
      BY DEF Idle, Aside, apps, tool, history
<1>2. Shape' BY <1>1 DEF IInv, Shape
<1>3. Flags'
  <2>1. UNCHANGED <<task, led, dark>> BY <1>1
  <2> QED BY <2>1, Zenon DEF IInv, Flags
<1>4. AtTool' BY <1>1 DEF IInv, AtTool
<1>5. AtApp' /\ DarkIsOff' BY <1>1, SameCalls
<1>6. RamWillBeStored' /\ StaysWhole' BY <1>1, SamePlan
<1> QED BY <1>2, <1>3, <1>4, <1>5, <1>6 DEF IInv

LEMMA LoopStep ==
    ASSUME IInv, LoopTick \/ Air \/ Fail \/ Clock
    PROVE  IInv'
<1>1. WifiShape /\ LinkHolds /\ rejected \in BOOLEAN BY Zenon DEF IInv, Shape, Flags
<1>2. CASE LoopTick
  <2>1. Idle /\ Aside /\ Tick BY <1>2 DEF LoopTick
  <2>2. WifiShape' /\ LinkHolds' /\ profiles' = profiles BY <1>1, <2>1, Ticked
  <2>3. rejected' \in BOOLEAN
    <3>1. rejected' \in {rejected, TRUE, FALSE}
          BY <2>1 DEF Tick, TickUnconfigured, TickConnected, TickConnecting, TickWaits, Steady,
                      EndAttempt, Attempt, Begin, Disconnect, driver
    <3> QED BY <1>1, <3>1, Zenon
  <2> QED BY <2>1, <2>2, <2>3, ServiceStep
<1>3. CASE Air \/ Fail
  <2>1. Idle /\ Aside BY <1>3 DEF Air, Fail
  <2>2. PICK from, to : LinkChanges(from, to)
        BY <1>3 DEF Air, Fail, Associates, Leases, Drops, Fails
  <2>3. WifiShape' /\ LinkHolds' /\ profiles' = profiles
        BY <1>1, <1>3, LinkChanged DEF Air, Fail
  <2>4. rejected' \in BOOLEAN
    <3>1. rejected' \in {rejected, FALSE} BY <2>2 DEF LinkChanges
    <3> QED BY <1>1, <3>1, Zenon
  <2> QED BY <2>1, <2>3, <2>4, ServiceStep
<1>4. CASE Clock
  <2>1. Idle /\ Aside /\ Passes BY <1>4 DEF Clock
  <2>2. WifiShape' /\ LinkHolds' /\ profiles' = profiles BY <1>1, <2>1, Passed
  <2>3. rejected' = rejected BY <2>1 DEF Passes, driver
  <2> QED BY <1>1, <2>1, <2>2, <2>3, ServiceStep
<1> QED BY <1>2, <1>3, <1>4

-----------------------------------------------------------------------------
(* The calls                                                               *)

LEMMA Called ==
    ASSUME IInv, NEW op, Calling(op)
    PROVE  /\ up /\ up' /\ calls # << >> /\ calls' = Tail(calls) /\ This = Head(calls)
           /\ This \in Calls /\ This.op = op /\ Command(calls) /\ Command(calls')
           /\ script' = script /\ user' = user
<1>1. /\ up /\ calls # << >> /\ This.op = op /\ calls' = Tail(calls)
      /\ UNCHANGED <<up, script, user>>
      BY DEF Calling
<1>2. Command(calls) BY DEF IInv, Shape
<1>3. calls \in Seq(Calls) BY <1>2 DEF Command
<1>4. Command(calls') BY <1>1, <1>2, CommandTail
<1>5. This \in Calls BY <1>1, <1>3, HeadAndTail DEF This
<1> QED BY <1>1, <1>2, <1>4, <1>5 DEF This

\* The plan, when one call of it is made.
LEMMA PlanNext ==
    ASSUME IInv, up, calls # << >>, calls' = Tail(calls),
           \A k \in Keys : nvs'[k] = IF Writes(Head(calls), k) THEN Head(calls).value ELSE nvs[k],
           \A s \in Slots :
               profiles'[s] = IF Sets(Head(calls), s) THEN Profile(Head(calls)) ELSE profiles[s],
           drift' = drift, torn' = torn
    PROVE  RamWillBeStored' /\ StaysWhole'
<1>1. Command(calls) BY DEF IInv, Shape
<1>2. NvsAfter(calls', nvs') = NvsAfter(calls, nvs) BY <1>1, NvsTail
<1>3. ProfilesAfter(calls', profiles') = ProfilesAfter(calls, profiles) BY <1>1, ProfilesTail
<1>4. RamWillBeStored' BY <1>2, <1>3, Zenon DEF IInv, RamWillBeStored
<1>5. StaysWhole' BY <1>2, Zenon DEF IInv, StaysWhole
<1> QED BY <1>4, <1>5

\* A call that is about no app.
LEMMA AsideNext ==
    ASSUME IInv, calls # << >>, ~AppCall(Head(calls)), calls' = Tail(calls),
           UNCHANGED <<task, record, led, dark>>
    PROVE  AtApp' /\ DarkIsOff'
<1>1. calls \in Seq(Calls) BY DEF IInv, Shape, Command
<1>2. (\A i \in 1..Len(calls) : ~AppCall(calls[i])) /\ \A a \in Apps : Agrees(a)
  <2>1. /\ calls # <<LedOn, Create("led-blink"), Reply>>
        /\ \A a \in Apps : calls # <<Create(a), Reply>> /\ calls # <<Stopped(a), Reply>>
        /\ calls # <<Delete("led-blink"), LedOff, Stopped("led-blink"), Reply>>
        /\ calls # <<Delete("diagnostics"), Stopped("diagnostics"), Reply>>
        /\ calls # <<LedOff, Stopped("led-blink"), Reply>>
        BY DEF AppCall, LedOn, LedOff, Create, Stopped, Delete
  <2> QED BY <2>1, Zenon DEF IInv, AtApp
<1>3. \A i \in 1..Len(Tail(calls)) : ~AppCall(Tail(calls)[i])
  <2>1. Len(calls) \in Nat /\ \A i \in 1..Len(Tail(calls)) :
            Tail(calls)[i] = calls[i + 1] /\ i + 1 \in 2..Len(calls)
        BY <1>1, HeadAndTail
  <2>2. 2..Len(calls) \subseteq 1..Len(calls) BY <2>1
  <2> QED BY <1>2, <2>1, <2>2
<1>4. \A a \in Apps : Agrees(a)' BY <1>2, Zenon DEF Agrees
<1>5. AtApp' BY <1>3, <1>4 DEF AtApp
<1>6. DarkIsOff' BY Zenon DEF IInv, DarkIsOff
<1> QED BY <1>5, <1>6

\* The steps of the tool while a command runs.
LEMMA ToolNext ==
    ASSUME IInv, calls # << >>, UNCHANGED <<script, user, host, at>>
    PROVE  AtTool' /\ host' \in {"sending", "waiting", "done", "failed"}
BY DEF IInv, AtTool, Shape

\* A change of the store.
LEMMA StoreStep ==
    ASSUME IInv, NEW op \in {"put", "remove", "clear-nvs"}, Calling(op),
           NEW changed \in Stores, NEW keys \in SUBSET Keys, Store(changed, keys),
           \A k \in Keys : changed[k] = IF Writes(This, k) THEN This.value ELSE nvs[k]
    PROVE  IInv'
<1>1. /\ up /\ up' /\ calls # << >> /\ calls' = Tail(calls) /\ This = Head(calls)
      /\ This \in Calls /\ This.op = op /\ Command(calls) /\ Command(calls')
      /\ script' = script /\ user' = user
      BY Called
<1>2. UNCHANGED <<wifi, task, record, led, dark, host, at>> BY DEF Store, apps, NoTool
<1>3. WifiShape' /\ LinkHolds' /\ profiles' = profiles /\ link' = link /\ rejected' = rejected
      BY <1>2, WifiSame DEF IInv, Shape
<1>4. \/ nvs' = changed /\ unsaved' = unsaved \ keys /\ torn' = torn /\ drift' = drift
      \/ nvs' = nvs /\ unsaved' = unsaved \cup keys /\ torn' = TRUE /\ drift' = TRUE
      BY DEF Store
<1>5. AtTool' /\ host' \in {"sending", "waiting", "done", "failed"} BY <1>1, <1>2, ToolNext
<1>6. nvs' \in Stores /\ unsaved' \subseteq Keys
  <2>1. nvs \in Stores /\ unsaved \subseteq Keys BY DEF IInv, Shape
  <2> QED BY <1>4, <2>1
<1>7. Shape' BY <1>1, <1>2, <1>3, <1>5, <1>6 DEF IInv, Shape
<1>8. Flags' BY <1>2, <1>3, FlagsSame DEF IInv
<1>9. AtApp' /\ DarkIsOff'
  <2>1. ~AppCall(Head(calls)) BY <1>1 DEF AppCall
  <2> QED BY <1>1, <1>2, <2>1, AsideNext
<1>10. RamWillBeStored' /\ StaysWhole'
  <2>1. CASE nvs' = changed /\ torn' = torn /\ drift' = drift
    <3>1. \A k \in Keys :
              nvs'[k] = IF Writes(Head(calls), k) THEN Head(calls).value ELSE nvs[k]
          BY <1>1, <2>1
    <3>2. \A s \in Slots : profiles'[s] = IF Sets(Head(calls), s) THEN Profile(Head(calls))
                                          ELSE profiles[s]
          BY <1>1, <1>3 DEF Sets
    <3> QED BY <1>1, <2>1, <3>1, <3>2, PlanNext
  <2>2. CASE torn' = TRUE /\ drift' = TRUE BY <2>2 DEF RamWillBeStored, StaysWhole
  <2> QED BY <1>4, <2>1, <2>2
<1> QED BY <1>3, <1>5, <1>7, <1>8, <1>9, <1>10 DEF IInv

LEMMA PutStep ==
    ASSUME IInv, PutString \/ Remove \/ ClearStore
    PROVE  IInv'
<1>1. nvs \in Stores BY DEF IInv, Shape
<1>2. WifiKeys \subseteq Keys /\ AuthKeys \subseteq Keys /\ WifiKeys \cap AuthKeys = {}
      BY DEF Keys, WifiKeys, AuthKeys
<1>3. CASE PutString
  <2> DEFINE changed == [nvs EXCEPT ![This.on] = This.value]
  <2>1. Calling("put") /\ Store(changed, {This.on}) BY <1>3 DEF PutString
  <2>2. This \in Calls /\ This.op = "put" BY <2>1, Called
  <2>3. \/ This.on \in WifiKeys /\ This.value \in Creds
        \/ This.on \in AuthKeys /\ This.value \in Values
        BY <2>2, Kinds
  <2>4. This.on \in Keys /\ This.value \in Values BY <1>2, <2>3 DEF Values
  <2>5. changed \in Stores
    <3>1. nvs \in [Keys -> Values \cup {Nil}] /\ \A k \in WifiKeys : nvs[k] \in Creds \cup {Nil}
          BY <1>1 DEF Stores
    <3>2. changed \in [Keys -> Values \cup {Nil}] BY <2>4, <3>1
    <3>3. \A k \in WifiKeys : changed[k] \in Creds \cup {Nil} BY <1>2, <2>3, <3>1
    <3> QED BY <3>2, <3>3 DEF Stores
  <2>6. \A k \in Keys : changed[k] = IF Writes(This, k) THEN This.value ELSE nvs[k]
        BY <1>1, <2>2 DEF Writes, Stores
  <2> HIDE DEF changed
  <2> QED BY <2>1, <2>4, <2>5, <2>6, StoreStep
<1>4. CASE Remove
  <2> DEFINE changed == [nvs EXCEPT ![This.on] = Nil]
  <2>1. Calling("remove") /\ Store(changed, {This.on}) BY <1>4 DEF Remove
  <2>2. This \in Calls /\ This.op = "remove" BY <2>1, Called
  <2>3. This.on \in Keys /\ This.value = Nil BY <2>2, Kinds
  <2>4. changed \in Stores BY <1>1, <1>2, <2>3 DEF Stores
  <2>5. \A k \in Keys : changed[k] = IF Writes(This, k) THEN This.value ELSE nvs[k]
        BY <1>1, <2>2, <2>3 DEF Writes, Stores
  <2> HIDE DEF changed
  <2> QED BY <2>1, <2>3, <2>4, <2>5, StoreStep
<1>5. CASE ClearStore
  <2> DEFINE changed == [k \in Keys |-> Nil]
  <2>1. Calling("clear-nvs") /\ Store(changed, Keys) BY <1>5 DEF ClearStore
  <2>2. This \in Calls /\ This.op = "clear-nvs" BY <2>1, Called
  <2>3. This.value = Nil BY <2>2, Kinds
  <2>4. changed \in Stores BY <1>2 DEF Stores
  <2>5. \A k \in Keys : changed[k] = IF Writes(This, k) THEN This.value ELSE nvs[k]
        BY <2>2, <2>3 DEF Writes
  <2> HIDE DEF changed
  <2> QED BY <2>1, <2>4, <2>5, StoreStep
<1> QED BY <1>3, <1>4, <1>5

LEMMA WifiCallStep ==
    ASSUME IInv, WifiCall
    PROVE  IInv'
<1>1. PICK op \in {"configure", "clear-slot", "clear-wifi"} :
          /\ Calling(op)
          /\ op = "configure" => Configure(This.on, This.value)
          /\ op = "clear-slot" => ClearSlot(This.on)
          /\ op = "clear-wifi" => ClearAll
      BY DEF WifiCall
<1>2. /\ up /\ up' /\ calls # << >> /\ calls' = Tail(calls) /\ This = Head(calls)
      /\ This \in Calls /\ This.op = op /\ Command(calls) /\ Command(calls')
      /\ script' = script /\ user' = user
      BY <1>1, Called
<1>3. /\ UNCHANGED <<nvs, task, record, led, dark, host, at>>
      /\ UNCHANGED <<unsaved, torn, drift>>
      BY DEF WifiCall, apps, history, NoTool
<1>4. WifiShape /\ LinkHolds /\ rejected \in BOOLEAN BY Zenon DEF IInv, Shape, Flags
<1>5. /\ op = "configure" => This.on \in Slots /\ This.value \in Creds \X Creds
      /\ op = "clear-slot" => This.on \in Slots
      /\ op \in {"clear-slot", "clear-wifi"} => This.value = Nil
      BY <1>2, Kinds
<1>6. WifiShape' /\ LinkHolds' BY <1>1, <1>4, <1>5, Reconfigured, Cleared, ClearedAll
<1>7. rejected' \in BOOLEAN
  <2>1. rejected' \in {rejected, FALSE}
        BY <1>1 DEF Configure, ClearSlot, ClearAll, Disconnect, driver
  <2> QED BY <1>4, <2>1, Zenon
<1>8. \A s \in Slots :
          profiles'[s] = IF Sets(Head(calls), s) THEN Profile(Head(calls)) ELSE profiles[s]
  <2>1. CASE op = "configure"
    <3>1. profiles' = [profiles EXCEPT ![This.on] = Clipped(This.value)]
          BY <1>1, <2>1 DEF Configure
    <3> QED BY <1>2, <1>4, <1>5, <2>1, <3>1 DEF Sets, Profile, WifiShape
  <2>2. CASE op = "clear-slot"
    <3>1. profiles' = [profiles EXCEPT ![This.on] = Nil] BY <1>1, <2>2 DEF ClearSlot
    <3> QED BY <1>2, <1>4, <1>5, <2>2, <3>1 DEF Sets, Profile, WifiShape
  <2>3. CASE op = "clear-wifi"
    <3>1. profiles' = [s \in Slots |-> Nil] BY <1>1, <2>3 DEF ClearAll
    <3> QED BY <1>2, <1>5, <2>3, <3>1 DEF Sets, Profile
  <2> QED BY <2>1, <2>2, <2>3
<1>9. \A k \in Keys : nvs'[k] = IF Writes(Head(calls), k) THEN Head(calls).value ELSE nvs[k]
      BY <1>2, <1>3 DEF Writes
<1>10. RamWillBeStored' /\ StaysWhole' BY <1>2, <1>3, <1>8, <1>9, PlanNext
<1>11. AtTool' /\ host' \in {"sending", "waiting", "done", "failed"} BY <1>2, <1>3, ToolNext
<1>12. Shape' BY <1>2, <1>3, <1>6, <1>11 DEF IInv, Shape
<1>13. Flags'
  <2>1. Flags BY DEF IInv
  <2>2. UNCHANGED <<task, led, dark>> BY <1>3
  <2> QED BY <1>7, <2>1, <2>2, Zenon DEF Flags
<1>14. AtApp' /\ DarkIsOff'
  <2>1. ~AppCall(Head(calls)) BY <1>2 DEF AppCall
  <2> QED BY <1>2, <1>3, <2>1, AsideNext
<1> QED BY <1>6, <1>10, <1>11, <1>12, <1>13, <1>14 DEF IInv

\* Where a command on an app stands, by the call that is next.
LEMMA AppAt ==
    ASSUME AtApp, calls \in Seq(Calls), calls # << >>, AppCall(Head(calls))
    PROVE  /\ Head(calls).op = "led" =>
                  \/ /\ calls = <<LedOn, Create("led-blink"), Reply>> /\ ~task["led-blink"]
                     /\ \A a \in Apps : Agrees(a)
                  \/ /\ calls = <<LedOff, Stopped("led-blink"), Reply>>
                     /\ ~task["led-blink"] /\ ~dark /\ Agrees("diagnostics")
           /\ Head(calls).op = "create" =>
                  \E a \in Apps :
                      /\ calls = <<Create(a), Reply>> /\ ~task[a]
                      /\ \A x \in Apps : Agrees(x)
                      /\ a = "led-blink" => ~dark
           /\ Head(calls).op = "delete" =>
                  \/ /\ calls = <<Delete("led-blink"), LedOff, Stopped("led-blink"), Reply>>
                     /\ ~dark /\ \A a \in Apps : Agrees(a)
                  \/ /\ calls = <<Delete("diagnostics"), Stopped("diagnostics"), Reply>>
                     /\ \A a \in Apps : Agrees(a)
           /\ Head(calls).op = "stopped" =>
                  \E a \in Apps :
                      /\ calls = <<Stopped(a), Reply>> /\ ~task[a]
                      /\ \A x \in Apps \ {a} : Agrees(x)
                      /\ a = "led-blink" => ~led
<1>1. ~\A i \in 1..Len(calls) : ~AppCall(calls[i])
  <2>1. Head(calls) = calls[1] /\ 1 \in 1..Len(calls) BY HeadAndTail
  <2> QED BY <2>1
<1>2. /\ calls = <<LedOn, Create("led-blink"), Reply>> => Head(calls).op = "led"
      /\ calls = <<LedOff, Stopped("led-blink"), Reply>> => Head(calls).op = "led"
      /\ \A a \in Apps : calls = <<Create(a), Reply>> => Head(calls).op = "create"
      /\ \A a \in Apps : calls = <<Stopped(a), Reply>> => Head(calls).op = "stopped"
      /\ calls = <<Delete("led-blink"), LedOff, Stopped("led-blink"), Reply>> =>
             Head(calls).op = "delete"
      /\ calls = <<Delete("diagnostics"), Stopped("diagnostics"), Reply>> =>
             Head(calls).op = "delete"
      BY DEF LedOn, LedOff, Create, Stopped, Delete
<1>3. "led" # "create" /\ "led" # "delete" /\ "led" # "stopped" /\ "create" # "delete"
      /\ "create" # "stopped" /\ "delete" # "stopped"
      OBVIOUS
<1>4. CASE Head(calls).op = "led" BY <1>1, <1>2, <1>3, <1>4, Zenon DEF AtApp
<1>5. CASE Head(calls).op = "create" BY <1>1, <1>2, <1>3, <1>5, Zenon DEF AtApp
<1>6. CASE Head(calls).op = "delete" BY <1>1, <1>2, <1>3, <1>6, Zenon DEF AtApp
<1>7. CASE Head(calls).op = "stopped" BY <1>1, <1>2, <1>3, <1>7, Zenon DEF AtApp
<1> QED BY <1>3, <1>4, <1>5, <1>6, <1>7, Zenon DEF AppCall

\* What a call on an app leaves alone.
LEMMA AppNext ==
    ASSUME IInv, NEW op \in {"led", "create", "delete", "stopped"}, Calling(op),
           UNCHANGED <<nvs, wifi, history, host, at>>,
           record' \in [Apps -> {"Stopped", "Running", "Failed"}],
           task' \in [Apps -> BOOLEAN], led' \in BOOLEAN, dark' \in BOOLEAN
    PROVE  /\ Shape' /\ Flags' /\ AtTool' /\ RamWillBeStored' /\ StaysWhole' /\ LinkHolds'
           /\ calls \in Seq(Calls) /\ calls # << >> /\ calls' = Tail(calls)
           /\ This = Head(calls) /\ Head(calls).op = op /\ AppCall(Head(calls))
<1>1. /\ up /\ up' /\ calls # << >> /\ calls' = Tail(calls) /\ This = Head(calls)
      /\ This \in Calls /\ This.op = op /\ Command(calls) /\ Command(calls')
      /\ script' = script /\ user' = user
      BY Called
<1>2. UNCHANGED <<unsaved, torn, drift>> BY DEF history
<1>3. WifiShape' /\ LinkHolds' /\ profiles' = profiles /\ link' = link /\ rejected' = rejected
      BY WifiSame DEF IInv, Shape
<1>4. AtTool' /\ host' \in {"sending", "waiting", "done", "failed"} BY <1>1, ToolNext
<1>5. Shape' BY <1>1, <1>2, <1>3, <1>4 DEF IInv, Shape
<1>6. Flags'
  <2>1. Flags BY DEF IInv
  <2> QED BY <1>3, <2>1, Zenon DEF Flags
<1>7. RamWillBeStored' /\ StaysWhole'
  <2>1. \A k \in Keys : nvs'[k] = IF Writes(Head(calls), k) THEN Head(calls).value ELSE nvs[k]
        BY <1>1 DEF Writes
  <2>2. \A s \in Slots :
            profiles'[s] = IF Sets(Head(calls), s) THEN Profile(Head(calls)) ELSE profiles[s]
        BY <1>1, <1>3 DEF Sets
  <2> QED BY <1>1, <1>2, <2>1, <2>2, PlanNext
<1>8. calls \in Seq(Calls) BY <1>1 DEF Command
<1>9. AppCall(Head(calls)) BY <1>1 DEF AppCall
<1> QED BY <1>1, <1>3, <1>4, <1>5, <1>6, <1>7, <1>8, <1>9

\* What is left of the commands on the apps.
LEMMA AppTails ==
    /\ Tail(<<LedOn, Create("led-blink"), Reply>>) = <<Create("led-blink"), Reply>>
    /\ Tail(<<LedOff, Stopped("led-blink"), Reply>>) = <<Stopped("led-blink"), Reply>>
    /\ Tail(<<Delete("led-blink"), LedOff, Stopped("led-blink"), Reply>>) =
           <<LedOff, Stopped("led-blink"), Reply>>
    /\ Tail(<<Delete("diagnostics"), Stopped("diagnostics"), Reply>>) =
           <<Stopped("diagnostics"), Reply>>
    /\ \A a \in Apps : /\ Tail(<<Create(a), Reply>>) = <<Reply>>
                       /\ Tail(<<Stopped(a), Reply>>) = <<Reply>>
    /\ \A i \in 1..Len(<<Reply>>) : ~AppCall(<<Reply>>[i])
<1>1. \A i \in 1..Len(<<Reply>>) : ~AppCall(<<Reply>>[i]) BY DEF AppCall, Reply
<1> QED BY <1>1

LEMMA LedStep ==
    ASSUME IInv, WriteLed
    PROVE  IInv'
<1>1. /\ Calling("led") /\ led' = This.value /\ dark' = (dark /\ ~This.value)
      /\ UNCHANGED <<nvs, wifi, task, record, history, host, at>>
      BY DEF WriteLed, NoTool
<1>2. AtApp /\ DarkIsOff /\ Flags /\ record \in [Apps -> {"Stopped", "Running", "Failed"}]
      BY DEF IInv, Shape
<1>3. calls \in Seq(Calls) /\ calls # << >> /\ This = Head(calls) /\ Head(calls).op = "led"
      /\ calls' = Tail(calls)
      BY <1>1, Called DEF Command
<1>4. AppCall(Head(calls)) BY <1>3 DEF AppCall
<1>5. CASE /\ calls = <<LedOn, Create("led-blink"), Reply>> /\ ~task["led-blink"]
           /\ \A a \in Apps : Agrees(a)
  <2>1. This.value = TRUE BY <1>3, <1>5 DEF LedOn
  <2>2. led' = TRUE /\ dark' = FALSE BY <1>1, <2>1, Zenon
  <2>3. calls' = <<Create("led-blink"), Reply>> BY <1>3, <1>5, AppTails
  <2>4. task' = task /\ record' = record BY <1>1
  <2>5. \A a \in Apps : Agrees(a)' BY <1>5, <2>4, Zenon DEF Agrees
  <2>6. "led-blink" \in Apps BY Distinct
  <2>7. AtApp' BY <1>5, <2>2, <2>3, <2>4, <2>5, <2>6, Zenon DEF AtApp
  <2>8. DarkIsOff' BY <2>2 DEF DarkIsOff
  <2>9. led' \in BOOLEAN /\ dark' \in BOOLEAN BY <2>2
  <2>10. task' \in [Apps -> BOOLEAN] /\ record' \in [Apps -> {"Stopped", "Running", "Failed"}]
         BY <1>2, <2>4, Zenon DEF Flags
  <2>11. UNCHANGED <<nvs, wifi, history, host, at>> BY <1>1
  <2>12. Shape' /\ Flags' /\ AtTool' /\ RamWillBeStored' /\ StaysWhole' /\ LinkHolds'
         BY <1>1, <2>9, <2>10, <2>11, AppNext
  <2> QED BY <2>7, <2>8, <2>12 DEF IInv
<1>6. CASE /\ calls = <<LedOff, Stopped("led-blink"), Reply>>
           /\ ~task["led-blink"] /\ ~dark /\ Agrees("diagnostics")
  <2>1. This.value = FALSE BY <1>3, <1>6 DEF LedOff
  <2>2. led' = FALSE /\ dark' = FALSE
    <3>1. dark' = (dark /\ ~FALSE) BY <1>1, <2>1
    <3>2. dark = FALSE BY <1>2, <1>6, Zenon DEF Flags
    <3> QED BY <1>1, <2>1, <3>1, <3>2, Zenon
  <2>3. calls' = <<Stopped("led-blink"), Reply>> BY <1>3, <1>6, AppTails
  <2>4. task' = task /\ record' = record BY <1>1
  <2>5. Agrees("diagnostics")' BY <1>6, <2>4, Zenon DEF Agrees
  <2>6. "led-blink" \in Apps /\ \A x \in Apps \ {"led-blink"} : x = "diagnostics" BY Distinct
  <2>7. \A x \in Apps \ {"led-blink"} : Agrees(x)' BY <2>5, <2>6 DEF Agrees
  <2>8. AtApp' BY <1>6, <2>2, <2>3, <2>4, <2>6, <2>7, Zenon DEF AtApp
  <2>9. DarkIsOff' BY <2>2 DEF DarkIsOff
  <2>10. led' \in BOOLEAN /\ dark' \in BOOLEAN BY <2>2
  <2>11. task' \in [Apps -> BOOLEAN] /\ record' \in [Apps -> {"Stopped", "Running", "Failed"}]
         BY <1>2, <2>4, Zenon DEF Flags
  <2>12. UNCHANGED <<nvs, wifi, history, host, at>> BY <1>1
  <2>13. Shape' /\ Flags' /\ AtTool' /\ RamWillBeStored' /\ StaysWhole' /\ LinkHolds'
         BY <1>1, <2>10, <2>11, <2>12, AppNext
  <2> QED BY <2>8, <2>9, <2>13 DEF IInv
<1> QED BY <1>2, <1>3, <1>4, <1>5, <1>6, AppAt, Zenon

LEMMA CreateStep ==
    ASSUME IInv, CreateTask
    PROVE  IInv'
<1>1. /\ Calling("create")
      /\ UNCHANGED <<nvs, wifi, led, dark, history, host, at>>
      BY DEF CreateTask, NoTool
<1>2. \/ /\ task' = [task EXCEPT ![This.on] = TRUE]
         /\ record' = [record EXCEPT ![This.on] = "Running"]
      \/ task' = task /\ record' = [record EXCEPT ![This.on] = "Failed"]
      BY DEF CreateTask
<1>3. AtApp /\ DarkIsOff /\ Flags /\ record \in [Apps -> {"Stopped", "Running", "Failed"}]
      BY DEF IInv, Shape
<1>4. calls \in Seq(Calls) /\ calls # << >> /\ This = Head(calls) /\ Head(calls).op = "create"
      /\ calls' = Tail(calls)
      BY <1>1, Called DEF Command
<1>5. AppCall(Head(calls)) BY <1>4 DEF AppCall
<1>6. PICK a \in Apps : /\ calls = <<Create(a), Reply>> /\ ~task[a]
                        /\ \A x \in Apps : Agrees(x)
                        /\ a = "led-blink" => ~dark
      BY <1>3, <1>4, <1>5, AppAt, Zenon
<1>7. This.on = a BY <1>4, <1>6 DEF Create
<1>8. task \in [Apps -> BOOLEAN] BY <1>3, Zenon DEF Flags
<1>9. /\ task' \in [Apps -> BOOLEAN]
      /\ record' \in [Apps -> {"Stopped", "Running", "Failed"}]
      BY <1>2, <1>3, <1>7, <1>8
<1>10. Agrees(a)'
  <2>1. CASE /\ task' = [task EXCEPT ![a] = TRUE]
             /\ record' = [record EXCEPT ![a] = "Running"]
    <3>1. task'[a] = TRUE /\ record'[a] = "Running" BY <1>3, <1>8, <2>1
    <3> QED BY <3>1 DEF Agrees
  <2>2. CASE task' = task /\ record' = [record EXCEPT ![a] = "Failed"]
    <3>1. record'[a] = "Failed" BY <1>3, <2>2
    <3>2. ~task'[a] BY <1>6, <2>2, Zenon
    <3>3. record'[a] # "Running" BY <3>1
    <3> QED BY <3>2, <3>3, Zenon DEF Agrees
  <2> QED BY <1>2, <1>7, <2>1, <2>2
<1>11. \A x \in Apps \ {a} : task'[x] = task[x] /\ record'[x] = record[x]
       BY <1>2, <1>3, <1>7, <1>8
<1>12. \A x \in Apps : Agrees(x)'
  <2>1. ASSUME NEW x \in Apps, x # a PROVE Agrees(x)'
    <3>1. task'[x] = task[x] /\ record'[x] = record[x] BY <1>11, <2>1
    <3> QED BY <1>6, <3>1, Zenon DEF Agrees
  <2> QED BY <1>10, <2>1 DEF Agrees
<1>13. AtApp'
  <2>1. calls' = <<Reply>> BY <1>4, <1>6, AppTails
  <2> QED BY <1>12, <2>1, AppTails, Zenon DEF AtApp
<1>14. DarkIsOff'
  <2>1. led' = led /\ dark' = dark BY <1>1
  <2>2. CASE a = "led-blink" BY <1>6, <2>1, <2>2, Zenon DEF DarkIsOff
  <2>3. CASE a # "led-blink"
    <3>1. task'["led-blink"] = task["led-blink"] BY <1>11, <2>3, Distinct
    <3> QED BY <1>3, <2>1, <3>1, Zenon DEF DarkIsOff
  <2> QED BY <2>2, <2>3
<1>15. led' \in BOOLEAN /\ dark' \in BOOLEAN
  <2>1. led' = led /\ dark' = dark BY <1>1
  <2> QED BY <1>3, <2>1, Zenon DEF Flags
<1>16. UNCHANGED <<nvs, wifi, history, host, at>> BY <1>1
<1>17. Shape' /\ Flags' /\ AtTool' /\ RamWillBeStored' /\ StaysWhole' /\ LinkHolds'
       BY <1>1, <1>9, <1>15, <1>16, AppNext
<1> QED BY <1>13, <1>14, <1>17 DEF IInv

LEMMA DeleteStep ==
    ASSUME IInv, DeleteTask
    PROVE  IInv'
<1>1. /\ Calling("delete") /\ task' = [task EXCEPT ![This.on] = FALSE]
      /\ UNCHANGED <<nvs, wifi, record, led, dark, history, host, at>>
      BY DEF DeleteTask, NoTool
<1>2. AtApp /\ DarkIsOff /\ Flags /\ record \in [Apps -> {"Stopped", "Running", "Failed"}]
      BY DEF IInv, Shape
<1>3. calls \in Seq(Calls) /\ calls # << >> /\ This = Head(calls) /\ Head(calls).op = "delete"
      /\ calls' = Tail(calls)
      BY <1>1, Called DEF Command
<1>4. AppCall(Head(calls)) BY <1>3 DEF AppCall
<1>5. task \in [Apps -> BOOLEAN] BY <1>2, Zenon DEF Flags
<1>6. /\ \/ /\ calls = <<Delete("led-blink"), LedOff, Stopped("led-blink"), Reply>> /\ ~dark
         \/ calls = <<Delete("diagnostics"), Stopped("diagnostics"), Reply>>
      /\ \A a \in Apps : Agrees(a)
      BY <1>2, <1>3, <1>4, AppAt, Zenon
<1>7. \A a \in Apps : This.on = a => ~task'[a]
  <2>1. \A a \in Apps : This.on = a => task'[a] = FALSE BY <1>1, <1>5
  <2> QED BY <2>1, Zenon
<1>8. \A x \in Apps : x # This.on => task'[x] = task[x] BY <1>1, <1>5
<1>9. led' = led /\ dark' = dark /\ record' = record BY <1>1
<1>10. \A x \in Apps : x # This.on => Agrees(x)' BY <1>6, <1>8, <1>9, Zenon DEF Agrees
<1>11. AtApp'
  <2>1. CASE calls = <<Delete("led-blink"), LedOff, Stopped("led-blink"), Reply>> /\ ~dark
    <3>1. This.on = "led-blink" BY <1>3, <2>1 DEF Delete
    <3>2. calls' = <<LedOff, Stopped("led-blink"), Reply>> BY <1>3, <2>1, AppTails
    <3>3. "led-blink" \in Apps /\ "diagnostics" \in Apps /\ "diagnostics" # "led-blink"
          BY Distinct
    <3>4. ~task'["led-blink"] /\ Agrees("diagnostics")' BY <1>7, <1>10, <3>1, <3>3 DEF Agrees
    <3>5. ~dark' BY <1>9, <2>1, Zenon
    <3> QED BY <3>2, <3>4, <3>5, Zenon DEF AtApp
  <2>2. CASE calls = <<Delete("diagnostics"), Stopped("diagnostics"), Reply>>
    <3>1. This.on = "diagnostics" BY <1>3, <2>2 DEF Delete
    <3>2. calls' = <<Stopped("diagnostics"), Reply>> BY <1>3, <2>2, AppTails
    <3>3. "diagnostics" \in Apps /\ "diagnostics" # "led-blink" BY Distinct
    <3>4. ~task'["diagnostics"] BY <1>7, <3>1, <3>3, Zenon
    <3>5. \A x \in Apps \ {"diagnostics"} : x \in Apps /\ x # This.on BY <3>1
    <3>6. \A x \in Apps \ {"diagnostics"} : Agrees(x)' BY <1>10, <3>5, Zenon
    <3> QED BY <3>2, <3>3, <3>4, <3>6, Zenon DEF AtApp
  <2> QED BY <1>6, <2>1, <2>2
<1>12. DarkIsOff'
  <2>1. "led-blink" \in Apps BY Distinct
  <2>2. ~task["led-blink"] => ~task'["led-blink"] BY <1>7, <1>8, <2>1, Zenon
  <2> QED BY <1>2, <1>9, <2>2, Zenon DEF DarkIsOff
<1>13. led' \in BOOLEAN /\ dark' \in BOOLEAN BY <1>2, <1>9, Zenon DEF Flags
<1>14. task' \in [Apps -> BOOLEAN] BY <1>1, <1>5
<1>15. record' \in [Apps -> {"Stopped", "Running", "Failed"}] BY <1>2, <1>9
<1>16. UNCHANGED <<nvs, wifi, history, host, at>> BY <1>1
<1>17. Shape' /\ Flags' /\ AtTool' /\ RamWillBeStored' /\ StaysWhole' /\ LinkHolds'
       BY <1>1, <1>13, <1>14, <1>15, <1>16, AppNext
<1> QED BY <1>11, <1>12, <1>17 DEF IInv

LEMMA StoppedStep ==
    ASSUME IInv, MarkStopped
    PROVE  IInv'
<1>1. /\ Calling("stopped") /\ record' = [record EXCEPT ![This.on] = "Stopped"]
      /\ UNCHANGED <<nvs, wifi, task, led, history, host, at>>
      BY DEF MarkStopped, NoTool
<1>2. dark' = (dark \/ This.on = "led-blink") BY DEF MarkStopped
<1>3. AtApp /\ DarkIsOff /\ Flags /\ record \in [Apps -> {"Stopped", "Running", "Failed"}]
      BY DEF IInv, Shape
<1>4. calls \in Seq(Calls) /\ calls # << >> /\ This = Head(calls)
      /\ Head(calls).op = "stopped" /\ calls' = Tail(calls)
      BY <1>1, Called DEF Command
<1>5. AppCall(Head(calls)) BY <1>4 DEF AppCall
<1>6. PICK a \in Apps : /\ calls = <<Stopped(a), Reply>> /\ ~task[a]
                        /\ \A x \in Apps \ {a} : Agrees(x)
                        /\ a = "led-blink" => ~led
      BY <1>3, <1>4, <1>5, AppAt, Zenon
<1>7. This.on = a BY <1>4, <1>6 DEF Stopped
<1>8. record'[a] # "Running" /\ \A x \in Apps \ {a} : record'[x] = record[x]
      BY <1>1, <1>3, <1>7
<1>9. task' = task /\ led' = led BY <1>1
<1>10. Agrees(a)' BY <1>6, <1>8, <1>9, Zenon DEF Agrees
<1>11. \A x \in Apps : Agrees(x)'
  <2>1. ASSUME NEW x \in Apps, x # a PROVE Agrees(x)'
    <3>1. x \in Apps \ {a} /\ record'[x] = record[x] BY <1>8, <2>1
    <3> QED BY <1>6, <1>9, <3>1, Zenon DEF Agrees
  <2> QED BY <1>10, <2>1 DEF Agrees
<1>12. AtApp'
  <2>1. calls' = <<Reply>> BY <1>4, <1>6, AppTails
  <2> QED BY <1>11, <2>1, AppTails, Zenon DEF AtApp
<1>13. DarkIsOff'
  <2>1. CASE a = "led-blink" BY <1>6, <1>9, <2>1, Zenon DEF DarkIsOff
  <2>2. CASE a # "led-blink"
    <3>1. dark' => dark BY <1>2, <1>7, <2>2, Zenon
    <3> QED BY <1>3, <1>9, <3>1, Zenon DEF DarkIsOff
  <2> QED BY <2>1, <2>2
<1>14. led' \in BOOLEAN /\ dark' \in BOOLEAN /\ task' \in [Apps -> BOOLEAN]
  <2>1. dark' \in BOOLEAN BY <1>2, Zenon
  <2>2. led' \in BOOLEAN /\ task' \in [Apps -> BOOLEAN] BY <1>3, <1>9, Zenon DEF Flags
  <2> QED BY <2>1, <2>2
<1>15. record' \in [Apps -> {"Stopped", "Running", "Failed"}] BY <1>1, <1>3
<1>16. UNCHANGED <<nvs, wifi, history, host, at>> BY <1>1
<1>17. Shape' /\ Flags' /\ AtTool' /\ RamWillBeStored' /\ StaysWhole' /\ LinkHolds'
       BY <1>1, <1>14, <1>15, <1>16, AppNext
<1> QED BY <1>12, <1>13, <1>17 DEF IInv

LEMMA AnswerStep ==
    ASSUME IInv, Answer
    PROVE  IInv'
<1>1. /\ Calling("reply")
      /\ UNCHANGED <<nvs, wifi, task, record, led, dark>>
      /\ UNCHANGED <<unsaved, torn, drift>>
      BY DEF Answer, apps, history
<1>2. /\ up /\ up' /\ calls # << >> /\ calls' = Tail(calls) /\ This = Head(calls)
      /\ This \in Calls /\ This.op = "reply" /\ Command(calls) /\ Command(calls')
      /\ script' = script /\ user' = user
      BY <1>1, Called
<1>3. calls' = << >> BY <1>2, CommandTail
<1>4. WifiShape' /\ LinkHolds' /\ profiles' = profiles /\ link' = link /\ rejected' = rejected
      BY <1>1, WifiSame DEF IInv, Shape
<1>5. AtTool' /\ host' \in {"sending", "waiting", "done", "failed"}
  <2>1. CASE user # "tool"
    <3>1. host' = host /\ at' = at BY <2>1 DEF Answer, NoTool
    <3> QED BY <1>2, <2>1, <3>1 DEF AtTool, IInv, Shape
  <2>2. CASE user = "tool"
    <3>1. \/ at = Len(script) /\ host' = "done" /\ at' = at
          \/ at # Len(script) /\ host' = "sending" /\ at' = at + 1
          BY <2>2 DEF Answer
    <3>2. script \in Seq(ToolLines) \ {<< >>} /\ at \in 1..Len(script)
          BY <2>2 DEF IInv, AtTool
    <3>3. at' \in 1..Len(script) BY <3>1, <3>2
    <3> QED BY <1>2, <1>3, <3>1, <3>2, <3>3 DEF AtTool
  <2> QED BY <2>1, <2>2
<1>6. Shape' BY <1>1, <1>2, <1>4, <1>5 DEF IInv, Shape
<1>7. Flags' BY <1>1, <1>4, FlagsSame DEF IInv
<1>8. AtApp' /\ DarkIsOff'
  <2>1. ~AppCall(Head(calls)) BY <1>2 DEF AppCall
  <2> QED BY <1>1, <1>2, <2>1, AsideNext
<1>9. RamWillBeStored' /\ StaysWhole'
  <2>1. \A k \in Keys : nvs'[k] = IF Writes(Head(calls), k) THEN Head(calls).value ELSE nvs[k]
        BY <1>1, <1>2 DEF Writes
  <2>2. \A s \in Slots :
            profiles'[s] = IF Sets(Head(calls), s) THEN Profile(Head(calls)) ELSE profiles[s]
        BY <1>2, <1>4 DEF Sets
  <2> QED BY <1>1, <1>2, <2>1, <2>2, PlanNext
<1> QED BY <1>4, <1>5, <1>6, <1>7, <1>8, <1>9 DEF IInv

LEMMA RefuseStep ==
    ASSUME IInv, RefuseLine
    PROVE  IInv'
<1>1. /\ Calling("refuse")
      /\ UNCHANGED <<nvs, wifi, task, record, led, dark, host, at>>
      /\ UNCHANGED <<unsaved, torn, drift>>
      BY DEF RefuseLine, NoTool, apps, history
<1>2. /\ up /\ up' /\ calls # << >> /\ calls' = Tail(calls) /\ This = Head(calls)
      /\ This \in Calls /\ This.op = "refuse" /\ Command(calls) /\ Command(calls')
      /\ script' = script /\ user' = user
      BY <1>1, Called
<1>3. WifiShape' /\ LinkHolds' /\ profiles' = profiles /\ link' = link /\ rejected' = rejected
      BY <1>1, WifiSame DEF IInv, Shape
<1>4. AtTool' /\ host' \in {"sending", "waiting", "done", "failed"} BY <1>1, <1>2, ToolNext
<1>5. Shape' BY <1>1, <1>2, <1>3, <1>4 DEF IInv, Shape
<1>6. Flags' BY <1>1, <1>3, FlagsSame DEF IInv
<1>7. AtApp' /\ DarkIsOff'
  <2>1. ~AppCall(Head(calls)) BY <1>2 DEF AppCall
  <2> QED BY <1>1, <1>2, <2>1, AsideNext
<1>8. RamWillBeStored' /\ StaysWhole'
  <2>1. \A k \in Keys : nvs'[k] = IF Writes(Head(calls), k) THEN Head(calls).value ELSE nvs[k]
        BY <1>1, <1>2 DEF Writes
  <2>2. \A s \in Slots :
            profiles'[s] = IF Sets(Head(calls), s) THEN Profile(Head(calls)) ELSE profiles[s]
        BY <1>2, <1>3 DEF Sets
  <2> QED BY <1>1, <1>2, <2>1, <2>2, PlanNext
<1> QED BY <1>3, <1>4, <1>5, <1>6, <1>7, <1>8 DEF IInv

-----------------------------------------------------------------------------
(* The theorems                                                            *)

LEMMA IInvInit == Init => IInv
<1> SUFFICES ASSUME Init PROVE IInv OBVIOUS
<1>1. PICK x \in Situations : user = x.user /\ script = x.script /\ nvs = x.nvs BY DEF Init
<1>2. /\ up = FALSE /\ calls = << >> /\ record = [a \in Apps |-> "Stopped"]
      /\ task = [a \in Apps |-> FALSE]
      /\ led \in BOOLEAN /\ host = "sending" /\ at = 1 /\ unsaved = {} /\ dark = FALSE
      /\ profiles = [s \in Slots |-> Nil] /\ state = "Offline"
      /\ nextAttemptAt = 0 /\ nextProfile = 0 /\ activeSlot = 0 /\ now = 0
      /\ link = "idle" /\ joined = Nil /\ rejected = FALSE
      BY DEF Init, WifiInit
<1>3. nvs \in WholeStores BY <1>1, SketchAssumption
<1>4. nvs \in Stores /\ Whole(nvs) BY <1>3 DEF WholeStores, Stores, Whole
<1>5. WifiShape
  <2>1. 0 \in 0..(TickMod - 1) /\ 0 \in Slots BY WifiServiceAssumption, Distinct
  <2> QED BY <1>2, <2>1 DEF WifiShape
<1>6. Shape BY <1>2, <1>4, <1>5, AloneIsOne DEF Shape
<1>7. Flags BY <1>2 DEF Flags
<1>8. AtTool
  <2>1. SUFFICES ASSUME user = "tool"
                 PROVE  script \in Seq(ToolLines) \ {<< >>} /\ at \in 1..Len(script)
        BY <1>2 DEF AtTool
  <2>2. script \in Seq(ToolLines) \ {<< >>} BY <1>1, <2>1, ScriptAssumption
  <2> QED BY <1>2, <2>2
<1>9. RamWillBeStored BY <1>2 DEF RamWillBeStored
<1>10. StaysWhole BY <1>2, <1>4, NothingLeftMeans DEF StaysWhole
<1>11. AtApp
  <2>1. \A a \in Apps : Agrees(a) BY <1>2 DEF Agrees
  <2>2. \A i \in 1..Len(calls) : ~AppCall(calls[i]) BY <1>2
  <2> QED BY <2>1, <2>2 DEF AtApp
<1>12. DarkIsOff BY <1>2 DEF DarkIsOff
<1>13. LinkHolds BY <1>2 DEF LinkHolds
<1> QED BY <1>6, <1>7, <1>8, <1>9, <1>10, <1>11, <1>12, <1>13 DEF IInv

LEMMA CallStep ==
    ASSUME IInv, Call
    PROVE  IInv'
<1>1. CASE PutString \/ Remove \/ ClearStore BY <1>1, PutStep
<1>2. CASE WifiCall BY <1>2, WifiCallStep
<1>3. CASE WriteLed BY <1>3, LedStep
<1>4. CASE CreateTask BY <1>4, CreateStep
<1>5. CASE DeleteTask BY <1>5, DeleteStep
<1>6. CASE MarkStopped BY <1>6, StoppedStep
<1>7. CASE Answer BY <1>7, AnswerStep
<1>8. CASE RefuseLine BY <1>8, RefuseStep
<1> QED BY <1>1, <1>2, <1>3, <1>4, <1>5, <1>6, <1>7, <1>8 DEF Call

\* What the rest of the command being executed will make of store, profiles and
\* apps is right in every reachable state.
THEOREM Inductive == Spec => []IInv
<1>1. ASSUME IInv, [Next]_vars PROVE IInv'
  <2>1. CASE Setup BY <1>1, <2>1, SetupStep
  <2>2. CASE Reset BY <1>1, <2>2, ResetStep
  <2>3. CASE ToolSends BY <1>1, <2>3, ToolSendsStep
  <2>4. CASE Type BY <1>1, <2>4, TypeStep
  <2>5. CASE Timeout \/ RunAgain \/ UNCHANGED vars BY <1>1, <2>5, TimeoutStep
  <2>6. CASE Call BY <1>1, <2>6, CallStep
  <2>7. CASE Blink BY <1>1, <2>7, BlinkStep
  <2>8. CASE LoopTick \/ Air \/ Fail \/ Clock BY <1>1, <2>8, LoopStep
  <2> QED BY <1>1, <2>1, <2>2, <2>3, <2>4, <2>5, <2>6, <2>7, <2>8 DEF Next
<1> QED BY IInvInit, <1>1, PTL DEF Spec

\* The variables keep their types.
THEOREM TypeCorrect == Spec => []TypeOK
<1>1. IInv => TypeOK
  <2> SUFFICES ASSUME IInv PROVE TypeOK OBVIOUS
  <2>1. Shape /\ Flags BY DEF IInv
  <2>2. \A k \in WifiKeys : nvs[k] \in Creds \cup {Nil} BY <2>1 DEF Shape, Stores
  <2>3. rejected \in BOOLEAN /\ led \in BOOLEAN /\ task \in [Apps -> BOOLEAN]
        BY <2>1, Zenon DEF Flags
  <2> QED BY <2>1, <2>2, <2>3 DEF TypeOK, Shape, WifiShape
<1> QED BY <1>1, Inductive, PTL

\* Between two commands the profiles in RAM are those of the store, unless a
\* change failed or a key was set behind the service's back.
THEOREM RamAgrees == Spec => []RamIsStored
<1>1. IInv => RamIsStored
  <2> SUFFICES ASSUME IInv, Idle, ~drift PROVE InRam(nvs, profiles) BY DEF RamIsStored, InRam
  <2>1. up /\ calls = << >> BY DEF Idle
  <2>2. InRam(NvsAfter(<< >>, nvs), ProfilesAfter(<< >>, profiles))
        BY <2>1, Zenon DEF IInv, RamWillBeStored
  <2> QED BY <2>2, NothingLeftMeans
<1> QED BY <1>1, Inductive, PTL

\* Between two commands both images read the same profiles out of the store where
\* its values fit their buffers, unless a command was cut short or a change failed.
THEOREM ImagesAlike == Spec => []ImagesAgree
<1>1. ASSUME Whole(nvs), NEW s \in Slots, Roomy(s)
      PROVE  LoadWifi(nvs, s) = LoadProfile(nvs, s)
  <2>1. ASSUME NEW a, NEW b, a \notin LongSsids, b \notin LongPasswords
        PROVE  Clipped(<<a, b>>) = <<a, b>>
        BY <2>1 DEF Clipped
  <2>2. CASE s = 0
    <3>1. nvs["wifi_ssid_0"] = Nil <=> nvs["wifi_password_0"] = Nil
          BY <1>1, WifiNames, Distinct DEF Whole
    <3>2. /\ nvs["wifi_ssid_0"] \notin LongSsids /\ nvs["wifi_password_0"] \notin LongPasswords
          /\ nvs["wifi_ssid"] \notin LongSsids /\ nvs["wifi_password"] \notin LongPasswords
          BY <1>1, <2>2, WifiNames DEF Roomy
    <3> QED BY <2>1, <2>2, <3>1, <3>2, Loaded, WifiNames DEF LoadProfile, Fits
  <2>3. CASE s = 1
    <3>1. nvs["wifi_ssid_1"] \notin LongSsids /\ nvs["wifi_password_1"] \notin LongPasswords
          BY <1>1, <2>3, WifiNames DEF Roomy
    <3> QED BY <2>1, <2>3, <3>1, Loaded, WifiNames DEF LoadProfile, Fits
  <2> QED BY <2>2, <2>3, Distinct
<1>2. IInv => ImagesAgree
  <2> SUFFICES ASSUME IInv, Idle, ~torn PROVE Whole(nvs) BY <1>1 DEF ImagesAgree
  <2>1. calls = << >> BY DEF Idle
  <2>2. Whole(NvsAfter(<< >>, nvs)) BY <2>1, Zenon DEF IInv, StaysWhole
  <2> QED BY <2>2, NothingLeftMeans
<1> QED BY <1>2, Inductive, PTL

\* The station holds on to a profile that is set and whose turn it was, unless
\* the driver refused the attempt after it.
THEOREM HoldsConfigured == Spec => []LinkIsConfigured
<1>1. IInv => LinkIsConfigured BY Zenon DEF IInv, LinkHolds, LinkIsConfigured
<1> QED BY <1>1, Inductive, PTL

\* Once led-blink is stopped, the LED is dark until it is started again.
THEOREM StaysDark == Spec => []LedDark
<1>1. IInv => LedDark BY Zenon DEF IInv, DarkIsOff, LedDark
<1> QED BY <1>1, Inductive, PTL

\* Between two commands the tasks and the records of the apps agree.
THEOREM AppsAgreed == Spec => []AppsAgree
<1>1. IInv => AppsAgree
  <2> SUFFICES ASSUME IInv, Idle PROVE \A a \in Apps : Agrees(a) BY DEF AppsAgree, Agrees
  <2>1. AtApp /\ calls = << >> BY DEF IInv, Idle
  <2> QED BY <2>1, AtRest
<1> QED BY <1>1, Inductive, PTL

-----------------------------------------------------------------------------
(* What the tool sent                                                      *)

\* The calls of the commands it sends.
ToolCalls ==
    {Put(k, c) : k \in WifiKeys, c \in Creds}
    \cup {Put("ssh_username", Str(v)) : v \in Secrets}
    \cup {Put(k, Blob(v)) : k \in {"ssh_pw_hash", "ssh_host_key"}, v \in Secrets}
    \cup [op : {"configure"}, on : Slots, value : Creds \X Creds]
    \cup {RemoveKey("ssh_password"), Reply, Refuse}

LEMMA ToolCommandsCall == \A list \in ToolCommands : list \in Seq(ToolCalls)
<1>1. /\ \A k \in WifiKeys, c \in Creds : Put(k, c) \in ToolCalls
      /\ \A v \in Secrets : /\ Put("ssh_username", Str(v)) \in ToolCalls
                            /\ Put("ssh_pw_hash", Blob(v)) \in ToolCalls
                            /\ Put("ssh_host_key", Blob(v)) \in ToolCalls
      /\ \A s \in Slots, c \in Creds : CallConfigure(s, <<c, c>>) \in ToolCalls
      /\ {RemoveKey("ssh_password"), Reply, Refuse} \subseteq ToolCalls
  <2>1. \A k \in WifiKeys, c \in Creds : Put(k, c) \in ToolCalls BY DEF ToolCalls
  <2>2. \A v \in Secrets : Put("ssh_username", Str(v)) \in ToolCalls BY DEF ToolCalls
  <2>3. \A k \in {"ssh_pw_hash", "ssh_host_key"}, v \in Secrets : Put(k, Blob(v)) \in ToolCalls
        BY DEF ToolCalls
  <2>4. \A s \in Slots, c \in Creds : CallConfigure(s, <<c, c>>) \in ToolCalls
        BY DEF ToolCalls, CallConfigure
  <2>5. {RemoveKey("ssh_password"), Reply, Refuse} \subseteq ToolCalls BY DEF ToolCalls
  <2> QED BY <2>1, <2>2, <2>3, <2>4, <2>5
<1>2. ASSUME NEW s \in Slots, NEW c \in Creds PROVE StoreProfile(s, c) \in Seq(ToolCalls)
  <2>1. \A k \in {"wifi_ssid_0", "wifi_password_0", "wifi_ssid_1", "wifi_password_1",
                  "wifi_ssid", "wifi_password"} : Put(k, c) \in ToolCalls
        BY <1>1 DEF WifiKeys
  <2>2. CallConfigure(0, <<c, c>>) \in ToolCalls /\ CallConfigure(1, <<c, c>>) \in ToolCalls
        BY <1>1, Distinct
  <2>3. CASE s = 0
    <3>1. StoreProfile(s, c) =
              <<CallConfigure(0, <<c, c>>), Put("wifi_ssid_0", c), Put("wifi_password_0", c),
                Put("wifi_ssid", c), Put("wifi_password", c), Reply>>
          BY <2>3, StoreProfileCalls
    <3> QED BY <1>1, <2>1, <2>2, <3>1
  <2>4. CASE s = 1
    <3>1. StoreProfile(s, c) =
              <<CallConfigure(1, <<c, c>>), Put("wifi_ssid_1", c), Put("wifi_password_1", c),
                Reply>>
          BY <2>4, StoreProfileCalls
    <3> QED BY <1>1, <2>1, <2>2, <3>1
  <2> QED BY <2>3, <2>4, Distinct
<1>3. ASSUME NEW k \in {"ssh_username", "ssh_password", "ssh_host_key"}, NEW v \in Secrets
      PROVE  ConfigSet(k, v) \in Seq(ToolCalls)
  <2>1. /\ <<Put("ssh_pw_hash", Blob(v)), RemoveKey("ssh_password"), Reply>> \in Seq(ToolCalls)
        /\ <<Put("ssh_host_key", Blob(v)), Reply>> \in Seq(ToolCalls)
        /\ <<Put("ssh_username", Str(v)), Reply>> \in Seq(ToolCalls)
        BY <1>1
  <2> QED BY <2>1, ConfigSetCalls
<1>4. <<Refuse>> \in Seq(ToolCalls) BY <1>1
<1>5. ASSUME NEW list \in ToolCommands PROVE list \in Seq(ToolCalls)
  <2>1. CASE list = <<Refuse>> BY <1>4, <2>1
  <2>2. CASE \E s \in Slots, c \in Creds : list = StoreProfile(s, c) BY <1>2, <2>2
  <2>3. CASE \E k \in {"ssh_username", "ssh_password", "ssh_host_key"}, v \in Secrets :
                 list = ConfigSet(k, v)
        BY <1>3, <2>3
  <2> QED BY <2>1, <2>2, <2>3, ToolCommandForms
<1> QED BY <1>5

\* What a call of the tool's commands stores, and where.
LEMMA ToolCallKinds ==
    ASSUME NEW c \in ToolCalls
    PROVE  /\ c.op = "put" =>
                  \/ c.on \in WifiKeys /\ c.value \in Creds
                  \/ c.on = "ssh_username" /\ \E v \in Secrets : c.value = Str(v)
                  \/ c.on \in {"ssh_pw_hash", "ssh_host_key"}
                     /\ \E v \in Secrets : c.value = Blob(v)
           /\ c.op = "put" => c.on \in Keys \ {"ssh_password"}
           /\ \A k \in Keys \ {"ssh_password"} : Writes(c, k) => Puts(c, k)
<1>1. CASE c \in {Put(k, x) : k \in WifiKeys, x \in Creds}
  <2>1. PICK k \in WifiKeys, x \in Creds : c = Put(k, x) BY <1>1
  <2>2. k \in Keys \ {"ssh_password"} BY DEF Keys, WifiKeys
  <2> QED BY <2>1, <2>2 DEF Put, Writes, Puts
<1>2. CASE c \in {Put("ssh_username", Str(v)) : v \in Secrets}
  <2>1. PICK v \in Secrets : c = Put("ssh_username", Str(v)) BY <1>2
  <2>2. "ssh_username" \in Keys \ {"ssh_password"} BY NamesAreKeys
  <2> QED BY <2>1, <2>2 DEF Put, Writes, Puts
<1>3. CASE c \in {Put(k, Blob(v)) : k \in {"ssh_pw_hash", "ssh_host_key"}, v \in Secrets}
  <2>1. PICK k \in {"ssh_pw_hash", "ssh_host_key"}, v \in Secrets : c = Put(k, Blob(v)) BY <1>3
  <2>2. k \in Keys \ {"ssh_password"} BY NamesAreKeys
  <2> QED BY <2>1, <2>2 DEF Put, Writes, Puts
<1>4. CASE c \in [op : {"configure"}, on : Slots, value : Creds \X Creds]
  <2>1. c.op = "configure" BY <1>4
  <2> QED BY <2>1 DEF Writes
<1>5. CASE c \in {RemoveKey("ssh_password"), Reply, Refuse}
      BY <1>5 DEF RemoveKey, Reply, Refuse, Writes
<1> QED BY <1>1, <1>2, <1>3, <1>4, <1>5 DEF ToolCalls

\* A command that stores an SSID stores its password too.
LEMMA BothPut ==
    ASSUME NEW list \in ToolCommands, NEW s \in Slots, NEW i \in 1..Len(list),
           Puts(list[i], SsidKey[s])
    PROVE  \E x \in 1..Len(list) : Puts(list[x], PasswordKey[s])
<1>1. CASE list \in {StoreProfile(t, c) : t \in Slots, c \in Creds}
  <2>1. PICK t \in Slots, c \in Creds : list = StoreProfile(t, c) BY <1>1
  <2>2. CASE t = 0
    <3>1. list = <<CallConfigure(0, <<c, c>>), Put("wifi_ssid_0", c), Put("wifi_password_0", c),
                   Put("wifi_ssid", c), Put("wifi_password", c), Reply>>
          BY <2>1, <2>2, StoreProfileCalls
    <3>2. /\ Len(list) = 6 /\ list[1] = CallConfigure(0, <<c, c>>)
          /\ list[2] = Put("wifi_ssid_0", c) /\ list[3] = Put("wifi_password_0", c)
          /\ list[4] = Put("wifi_ssid", c) /\ list[5] = Put("wifi_password", c)
          /\ list[6] = Reply
          BY <3>1
    <3> HIDE DEF Puts
    <3>3. Puts(list[3], "wifi_password_0") BY <3>2 DEF Put, Puts
    <3>4. s = 0
      <4>1. \A x \in 1..6 : ~Puts(list[x], "wifi_ssid_1")
            BY <3>2 DEF Put, Puts, CallConfigure, Reply
      <4> QED BY <3>2, <4>1, WifiNames, Distinct
    <3> QED BY <3>2, <3>3, <3>4, WifiNames
  <2>3. CASE t = 1
    <3>1. list = <<CallConfigure(1, <<c, c>>), Put("wifi_ssid_1", c), Put("wifi_password_1", c),
                   Reply>>
          BY <2>1, <2>3, StoreProfileCalls
    <3>2. /\ Len(list) = 4 /\ list[1] = CallConfigure(1, <<c, c>>)
          /\ list[2] = Put("wifi_ssid_1", c) /\ list[3] = Put("wifi_password_1", c)
          /\ list[4] = Reply
          BY <3>1
    <3>3. Puts(list[3], "wifi_password_1") BY <3>2 DEF Put, Puts
    <3>4. s = 1
      <4>1. \A x \in 1..4 : ~Puts(list[x], "wifi_ssid_0")
            BY <3>2 DEF Put, Puts, CallConfigure, Reply
      <4> QED BY <3>2, <4>1, WifiNames, Distinct
    <3> QED BY <3>2, <3>3, <3>4, WifiNames
  <2> QED BY <2>2, <2>3, Distinct
<1>2. CASE list \in {ConfigSet(k, v) : k \in {"ssh_username", "ssh_password", "ssh_host_key"},
                                      v \in Secrets}
  <2>1. PICK k \in {"ssh_username", "ssh_password", "ssh_host_key"}, v \in Secrets :
            list = ConfigSet(k, v)
        BY <1>2
  <2>2. SsidKey[s] \in {"wifi_ssid_0", "wifi_ssid_1"} BY WifiNames, Distinct
  <2>3. CASE k = "ssh_password"
    <3>1. list = <<Put("ssh_pw_hash", Blob(v)), RemoveKey("ssh_password"), Reply>>
          BY <2>1, <2>3, ConfigSetCalls
    <3> QED BY <2>2, <3>1 DEF Puts, Put, RemoveKey, Reply
  <2>4. CASE k \in {"ssh_host_key", "ssh_username"}
    <3>1. PICK x : list = <<Put(k, x), Reply>> BY <2>1, <2>4, ConfigSetCalls
    <3> QED BY <2>2, <2>4, <3>1 DEF Puts, Put, Reply
  <2> QED BY <2>3, <2>4
<1>3. CASE list = <<Refuse>> BY <1>3 DEF Puts, Refuse
<1> QED BY <1>1, <1>2, <1>3 DEF ToolCommands

\* What the tool's commands store goes to a key of the store.
LEMMA PutsOnKey ==
    ASSUME AtTool, user = "tool", NEW i \in 1..Len(script), NEW j \in 1..Len(Ran(i)),
           Ran(i)[j].op = "put"
    PROVE  Ran(i)[j] \in ToolCalls /\ Ran(i)[j].on \in Keys \ {"ssh_password"}
<1>1. script \in Seq(ToolLines) BY DEF AtTool
<1>2. Ran(i) \in ToolCommands BY <1>1, LineExecutes DEF Ran
<1>3. Ran(i) \in Seq(ToolCalls) BY <1>2, ToolCommandsCall
<1>4. Ran(i)[j] \in ToolCalls BY <1>3
<1> QED BY <1>4, ToolCallKinds

\* A step that keeps what is kept keeps what was delivered.
LEMMA KeepsDelivered ==
    ASSUME IInv, Delivered, user' = user, script' = script, Done' = Done,
           user = "tool" => Done \in 0..Len(script),
           \A k \in Keys : \A v : Kept(k, v) => Kept(k, v)'
    PROVE  Delivered'
<1> SUFFICES ASSUME user = "tool", NEW i \in 1..Done, NEW j \in 1..Len(Ran(i)),
                    Ran(i)[j].op = "put"
             PROVE  \/ Kept(Ran(i)[j].on, Ran(i)[j].value)'
                    \/ \E later \in (i + 1)..Done : PutIn(later, Ran(i)[j].on)
    BY DEF Delivered, PutIn, Ran
<1>1. i \in 1..Len(script) OBVIOUS
<1>2. PICK k, v : k = Ran(i)[j].on /\ v = Ran(i)[j].value OBVIOUS
<1>3. k \in Keys
  <2>1. AtTool BY DEF IInv
  <2> QED BY <1>1, <1>2, <2>1, PutsOnKey
<1>4. Kept(k, v) \/ \E later \in (i + 1)..Done : PutIn(later, k) BY <1>2 DEF Delivered
<1>5. Kept(k, v)' \/ \E later \in (i + 1)..Done : PutIn(later, k) BY <1>3, <1>4
<1>6. k = (Ran(i)[j].on)' /\ v = (Ran(i)[j].value)' BY <1>2 DEF Ran
<1> QED BY <1>2, <1>5, <1>6 DEF Kept

\* The place in the script.
LEMMA DonePart ==
    ASSUME IInv, user = "tool"
    PROVE  Done \in 0..Len(script)
<1>1. /\ script \in Seq(ToolLines) \ {<< >>} /\ at \in 1..Len(script)
      BY DEF IInv, AtTool
<1> QED BY <1>1 DEF Done

LEMMA SameDelivered ==
    ASSUME IInv, Delivered, UNCHANGED <<user, script, calls, nvs, unsaved, host, at>>
    PROVE  Delivered'
<1>1. Done' = Done BY DEF Done
<1>2. \A k, v : Kept(k, v) => Kept(k, v)' BY DEF Kept
<1> QED BY <1>1, <1>2, DonePart, KeepsDelivered

\* Nothing is claimed.
LEMMA NoneDelivered ==
    ASSUME user' = "tool" => Done' = 0
    PROVE  Delivered'
<1>1. 1..0 = {} OBVIOUS
<1> QED BY <1>1 DEF Delivered

LEMMA SendDelivers ==
    ASSUME IInv, Delivered, ToolSends
    PROVE  Delivered'
<1>1. /\ user = "tool" /\ host = "sending" /\ calls = << >>
      /\ calls' = (IF up THEN Ran(at) ELSE << >>)
      /\ host' = "waiting" /\ UNCHANGED <<nvs, script, user, at, unsaved>>
      BY DEF ToolSends, Ran, history
<1>2. script \in Seq(ToolLines) \ {<< >>} /\ at \in 1..Len(script)
      BY <1>1 DEF IInv, AtTool
<1>3. CASE ~up
  <2>1. calls' = << >> BY <1>1, <1>3
  <2>2. Done' = 0 BY <1>1, <2>1 DEF Done
  <2> QED BY <2>2, NoneDelivered
<1>4. CASE up
  <2> DEFINE list == Ran(at)
  <2>1. list \in ToolCommands /\ calls' = list BY <1>1, <1>2, <1>4, LineExecutes DEF Ran
  <2>2. Command(list) /\ list \in Seq(ToolCalls) BY <2>1, ToolCommandIsOne, ToolCommandsCall
  <2> DEFINE n == IF list = << >> THEN 0 ELSE at
  <2>3. Done = at - 1 /\ Done' = n BY <1>1, <2>1 DEF Done
  <2> SUFFICES ASSUME NEW i \in 1..n, NEW j \in 1..Len(Ran(i)), Ran(i)[j].op = "put"
               PROVE  \/ Kept(Ran(i)[j].on, Ran(i)[j].value)'
                      \/ \E later \in (i + 1)..n : PutIn(later, Ran(i)[j].on)
      BY <1>1, <2>3 DEF Delivered, PutIn, Ran
  <2>4. n = at BY <1>2
  <2> HIDE DEF n
  <2>5. i \in 1..Len(script) BY <1>2, <2>4
  <2>6. Ran(i) \in Seq(ToolCalls) BY <1>2, <2>5, LineExecutes, ToolCommandsCall DEF Ran
  <2>7. PICK k, v : k = Ran(i)[j].on /\ v = Ran(i)[j].value OBVIOUS
  <2>8. k \in Keys \ {"ssh_password"}
    <3>1. Ran(i)[j] \in ToolCalls BY <2>6
    <3> QED BY <2>7, <3>1, ToolCallKinds
  <2>9. Kept(k, v)' \/ \E later \in (i + 1)..n : PutIn(later, k)
    <3>1. CASE i = at
      <4>1. Writes(list[j], k) /\ j \in 1..Len(list) BY <2>7, <3>1 DEF Writes
      <4>2. NvsAfter(list, nvs)[k] = v BY <2>2, <2>7, <2>8, <3>1, <4>1, WrittenBy
      <4> HIDE DEF list
      <4> QED BY <1>1, <2>1, <4>2 DEF Kept
    <3>2. CASE i < at
      <4>1. i \in 1..Done BY <1>2, <2>3, <2>4, <3>2
      <4>2. \/ Kept(k, v)
            \/ \E later \in (i + 1)..Done : PutIn(later, k)
            BY <1>1, <2>7, <4>1 DEF Delivered
      <4>3. CASE \E later \in (i + 1)..Done : PutIn(later, k) BY <1>2, <2>3, <2>4, <4>3
      <4>4. CASE PutIn(at, k) BY <1>2, <2>4, <3>2, <4>4
      <4>5. CASE Kept(k, v) /\ ~PutIn(at, k)
        <5>1. \A x \in 1..Len(list) : ~Writes(list[x], k)
          <6>1. \A x \in 1..Len(list) : list[x] \in ToolCalls BY <2>2
          <6> QED BY <2>8, <4>5, <6>1, ToolCallKinds DEF PutIn
        <5>2. NvsAfter(list, nvs)[k] = nvs[k] BY <2>8, <5>1, Unwritten
        <5>3. NvsAfter(<< >>, nvs)[k] = nvs[k] BY <2>8, NothingLeft
        <5> HIDE DEF list
        <5> QED BY <1>1, <2>1, <4>5, <5>1, <5>2, <5>3 DEF Kept
      <4> QED BY <4>2, <4>3, <4>4, <4>5
    <3>3. i = at \/ i < at BY <1>2, <2>4
    <3> QED BY <3>1, <3>2, <3>3
  <2>10. k = (Ran(i)[j].on)' /\ v = (Ran(i)[j].value)' BY <1>1, <2>7 DEF Ran
  <2> QED BY <2>7, <2>9, <2>10 DEF Kept
<1> QED BY <1>3, <1>4

\* A call that changes a key, or fails to and says so in `unsaved`, keeps what the
\* command was to store.
LEMMA KeptByCall ==
    ASSUME IInv, calls # << >>, calls' = Tail(calls), NEW k \in Keys, NEW v, Kept(k, v),
           \/ /\ nvs'[k] = IF Writes(Head(calls), k) THEN Head(calls).value ELSE nvs[k]
              /\ Writes(Head(calls), k) \/ (k \in unsaved => k \in unsaved')
           \/ Writes(Head(calls), k) /\ k \in unsaved'
    PROVE  Kept(k, v)'
<1>1. Command(calls) BY DEF IInv, Shape
<1>2. calls \in Seq(Calls) BY <1>1 DEF Command
<1>3. /\ Head(calls) = calls[1] /\ 1 \in 1..Len(calls)
      /\ \A i \in 1..Len(calls') :
             calls'[i] = calls[i + 1] /\ i + 1 \in 1..Len(calls) /\ i + 1 # 1
      BY <1>2, HeadAndTail
<1>4. Writes(Head(calls), k) => \A x \in 1..Len(calls') : ~Writes(calls'[x], k)
      BY <1>1, <1>3 DEF Command
<1>5. CASE Writes(Head(calls), k) /\ k \in unsaved' BY <1>4, <1>5 DEF Kept
<1>6. CASE /\ nvs'[k] = IF Writes(Head(calls), k) THEN Head(calls).value ELSE nvs[k]
           /\ Writes(Head(calls), k) \/ (k \in unsaved => k \in unsaved')
  <2>1. NvsAfter(calls', nvs')[k] = NvsAfter(calls, nvs)[k] BY <1>1, <1>6, KeyTail
  <2>2. CASE NvsAfter(calls, nvs)[k] = v BY <2>1, <2>2 DEF Kept
  <2>3. CASE k \in unsaved /\ \A x \in 1..Len(calls) : ~Writes(calls[x], k)
    <3>1. ~Writes(Head(calls), k) BY <1>3, <2>3
    <3>2. \A x \in 1..Len(calls') : ~Writes(calls'[x], k) BY <1>3, <2>3
    <3> QED BY <1>6, <2>3, <3>1, <3>2 DEF Kept
  <2> QED BY <2>2, <2>3 DEF Kept
<1> QED BY <1>5, <1>6

\* Every call is one of those.
LEMMA CallKeeps ==
    ASSUME IInv, Call
    PROVE  \A k \in Keys :
               \/ /\ nvs'[k] = IF Writes(Head(calls), k) THEN Head(calls).value ELSE nvs[k]
                  /\ Writes(Head(calls), k) \/ (k \in unsaved => k \in unsaved')
               \/ Writes(Head(calls), k) /\ k \in unsaved'
<1> SUFFICES ASSUME NEW k \in Keys
             PROVE  \/ /\ nvs'[k] = IF Writes(Head(calls), k) THEN Head(calls).value
                                    ELSE nvs[k]
                       /\ Writes(Head(calls), k) \/ (k \in unsaved => k \in unsaved')
                    \/ Writes(Head(calls), k) /\ k \in unsaved'
    OBVIOUS
<1>1. nvs \in [Keys -> Values \cup {Nil}] BY DEF IInv, Shape, Stores
<1>2. CASE PutString
  <2>1. Calling("put") BY <1>2 DEF PutString
  <2>2. This = Head(calls) /\ This.op = "put" BY <2>1, Called
  <2>3. \/ nvs' = [nvs EXCEPT ![This.on] = This.value] /\ unsaved' = unsaved \ {This.on}
        \/ nvs' = nvs /\ unsaved' = unsaved \cup {This.on}
        BY <1>2 DEF PutString, Store
  <2> QED BY <1>1, <2>2, <2>3 DEF Writes
<1>3. CASE Remove
  <2>1. Calling("remove") BY <1>3 DEF Remove
  <2>2. This = Head(calls) /\ This.op = "remove" /\ This \in Calls BY <2>1, Called
  <2>3. This.value = Nil BY <2>2, Kinds
  <2>4. \/ nvs' = [nvs EXCEPT ![This.on] = Nil] /\ unsaved' = unsaved \ {This.on}
        \/ nvs' = nvs /\ unsaved' = unsaved \cup {This.on}
        BY <1>3 DEF Remove, Store
  <2> QED BY <1>1, <2>2, <2>3, <2>4 DEF Writes
<1>4. CASE ClearStore
  <2>1. Calling("clear-nvs") BY <1>4 DEF ClearStore
  <2>2. This = Head(calls) /\ This.op = "clear-nvs" /\ This \in Calls BY <2>1, Called
  <2>3. This.value = Nil BY <2>2, Kinds
  <2>4. \/ nvs' = [x \in Keys |-> Nil] /\ unsaved' = unsaved \ Keys
        \/ nvs' = nvs /\ unsaved' = unsaved \cup Keys
        BY <1>4 DEF ClearStore, Store
  <2> QED BY <2>2, <2>3, <2>4 DEF Writes
<1>5. ASSUME NEW op \in {"configure", "clear-slot", "clear-wifi", "led", "create", "delete",
                         "stopped", "reply", "refuse"},
             Calling(op), nvs' = nvs, unsaved' = unsaved
      PROVE  /\ nvs'[k] = IF Writes(Head(calls), k) THEN Head(calls).value ELSE nvs[k]
             /\ Writes(Head(calls), k) \/ (k \in unsaved => k \in unsaved')
  <2>1. Head(calls).op = op BY <1>5, Called
  <2>2. ~Writes(Head(calls), k) BY <2>1 DEF Writes
  <2> QED BY <1>5, <2>2
<1>6. CASE \/ WifiCall \/ WriteLed \/ CreateTask \/ DeleteTask \/ MarkStopped \/ Answer
           \/ RefuseLine
  <2>1. PICK op \in {"configure", "clear-slot", "clear-wifi", "led", "create", "delete",
                     "stopped", "reply", "refuse"} : Calling(op)
        BY <1>6 DEF WifiCall, WriteLed, CreateTask, DeleteTask, MarkStopped, Answer, RefuseLine
  <2>2. nvs' = nvs /\ unsaved' = unsaved
        BY <1>6 DEF WifiCall, WriteLed, CreateTask, DeleteTask, MarkStopped, Answer, RefuseLine,
                    history
  <2> QED BY <1>5, <2>1, <2>2
<1> QED BY <1>2, <1>3, <1>4, <1>6 DEF Call

\* The calls of a command do not move the tool on; its answer does.
LEMMA CallMoves ==
    ASSUME IInv, Call, ~RefuseLine, user = "tool"
    PROVE  Done' = Done
<1>1. PICK op : Calling(op) /\ op # "refuse" /\ (op = "reply" => Answer)
                /\ (op # "reply" => UNCHANGED <<host, at>>)
      BY DEF Call, PutString, Remove, ClearStore, Store, WifiCall, WriteLed, CreateTask,
             DeleteTask, MarkStopped, Answer, NoTool
<1>2. /\ calls # << >> /\ calls' = Tail(calls) /\ This = Head(calls) /\ This.op = op
      /\ Command(calls) /\ script' = script
      BY <1>1, Called
<1>3. op = "reply" <=> calls' = << >> BY <1>1, <1>2, CommandTail
<1>4. CASE op = "reply"
  <2>1. \/ at = Len(script) /\ host' = "done"
        \/ host' = "sending" /\ at' = at + 1
        BY <1>1, <1>4 DEF Answer
  <2>2. at \in Nat BY DEF IInv, AtTool
  <2> QED BY <1>2, <1>3, <1>4, <2>1, <2>2 DEF Done
<1>5. CASE op # "reply" BY <1>1, <1>2, <1>3, <1>5 DEF Done
<1> QED BY <1>4, <1>5

LEMMA CallDelivers ==
    ASSUME IInv, Delivered, Call
    PROVE  Delivered'
<1>1. calls # << >> /\ calls' = Tail(calls) /\ script' = script /\ user' = user
  <2>1. PICK op : Calling(op)
        BY DEF Call, PutString, Remove, ClearStore, WifiCall, WriteLed, CreateTask,
               DeleteTask, MarkStopped, Answer, RefuseLine
  <2> QED BY <2>1, Called
<1>2. CASE user # "tool" BY <1>1, <1>2, NoneDelivered
<1>3. CASE user = "tool" /\ RefuseLine
  <2>1. Calling("refuse") /\ host' = host BY <1>3 DEF RefuseLine, NoTool
  <2>2. calls' = << >>
    <3>1. Command(calls) /\ Head(calls).op = "refuse" BY <2>1, Called
    <3> QED BY <1>1, <3>1, CommandTail
  <2>3. host' = "waiting" BY <1>1, <1>3, <2>1 DEF IInv, AtTool
  <2>4. Done' = 0 BY <2>2, <2>3 DEF Done
  <2> QED BY <2>4, NoneDelivered
<1>4. CASE user = "tool" /\ ~RefuseLine
  <2>1. Done' = Done BY <1>4, CallMoves
  <2>2. \A k \in Keys : \A v : Kept(k, v) => Kept(k, v)' BY <1>1, CallKeeps, KeptByCall
  <2> QED BY <1>1, <1>4, <2>1, <2>2, DonePart, KeepsDelivered
<1> QED BY <1>2, <1>3, <1>4

\* What the tool sent is stored when the command is done, or known not to be.
THEOREM KeepsWhatWasSent == Spec => []Delivered
<1>1. Init => Delivered
  <2> SUFFICES ASSUME Init PROVE Delivered OBVIOUS
  <2>1. Done = 0 BY DEF Init, Done
  <2> QED BY <2>1 DEF Delivered
<1>2. ASSUME IInv, Delivered, [Next]_vars PROVE Delivered'
  <2>1. CASE Setup
    <3>1. UNCHANGED <<user, script, calls, nvs, unsaved, host, at>>
          BY <2>1 DEF Setup, tool
    <3> QED BY <1>2, <3>1, SameDelivered
  <2>2. CASE Reset
    <3>1. UNCHANGED <<user, script, nvs, unsaved, host, at>> /\ calls' = << >>
          BY <2>2 DEF Reset, tool
    <3>2. CASE calls = << >> BY <1>2, <3>1, <3>2, SameDelivered
    <3>3. CASE calls # << >>
      <4>1. user = "tool" => host = "waiting" BY <1>2, <3>3 DEF IInv, AtTool
      <4>2. user' = "tool" => Done' = 0 BY <3>1, <4>1 DEF Done
      <4> QED BY <4>2, NoneDelivered
    <3> QED BY <3>2, <3>3
  <2>3. CASE ToolSends BY <1>2, <2>3, SendDelivers
  <2>4. CASE Type
    <3>1. user' # "tool" BY <2>4 DEF Type, Types, tool
    <3> QED BY <3>1, NoneDelivered
  <2>5. CASE Timeout
    <3>1. calls' = << >> /\ host' = "failed" BY <2>5 DEF Timeout
    <3>2. Done' = 0 BY <3>1 DEF Done
    <3> QED BY <3>2, NoneDelivered
  <2>6. CASE RunAgain
    <3>1. /\ host = "failed" /\ host' = "sending" /\ at' = 1 /\ UNCHANGED <<calls, user>>
          BY <2>6 DEF RunAgain
    <3>2. user = "tool" => calls = << >> BY <1>2, <3>1 DEF IInv, AtTool
    <3>3. user' = "tool" => Done' = 0 BY <3>1, <3>2 DEF Done
    <3> QED BY <3>3, NoneDelivered
  <2>7. CASE Call BY <1>2, <2>7, CallDelivers
  <2>8. CASE Blink \/ LoopTick \/ Air \/ Fail \/ Clock \/ UNCHANGED vars
    <3>1. UNCHANGED <<user, script, calls, nvs, unsaved, host, at>>
          BY <2>8 DEF Blink, LoopTick, Air, Fail, Clock, Aside, vars, tool, history
    <3> QED BY <1>2, <3>1, SameDelivered
  <2> QED BY <1>2, <2>1, <2>2, <2>3, <2>4, <2>5, <2>6, <2>7, <2>8 DEF Next
<1> QED BY <1>1, <1>2, Inductive, PTL DEF Spec

\* A set of places in the script has a last one.
LEMMA Least ==
    ASSUME NEW S \in SUBSET Nat, S # {}
    PROVE  \E i \in S : \A j \in S : i <= j
<1>1. PICK i \in S : \A j \in S : ~ (<<j, i>> \in OpToRel(<, Nat))
      BY NatLessThanWellFounded, WFMin
<1>2. \A j \in S : ~ (j < i) BY <1>1 DEF OpToRel
<1> QED BY <1>2

LEMMA Greatest ==
    ASSUME NEW n \in Nat, NEW S \in SUBSET (1..n), S # {}
    PROVE  Max(S) \in S /\ \A i \in S : Max(S) >= i
<1> DEFINE left == {n - i : i \in S}
<1>1. left \in SUBSET Nat /\ left # {}
  <2>1. \A i \in S : n - i \in Nat OBVIOUS
  <2>2. PICK i \in S : TRUE OBVIOUS
  <2>3. n - i \in left BY <2>2
  <2> QED BY <2>1, <2>3
<1>2. PICK k \in left : \A j \in left : k <= j BY <1>1, Least
<1>3. PICK i \in S : k = n - i OBVIOUS
<1>4. \A j \in S : n - j \in left OBVIOUS
<1>5. \A j \in S : n - i <= n - j BY <1>2, <1>3, <1>4
<1>6. \A j \in S : i >= j BY <1>5
<1>7. \E x \in S : \A y \in S : x >= y BY <1>6
<1> QED BY <1>7 DEF Max

\* An SSID that the sketch accepts fits.
LEMMA ShortSsids ==
    ASSUME NEW line \in ToolLines, NEW s \in Slots, NEW x \in 1..Len(Executes(line)),
           Puts(Executes(line)[x], SsidKey[s])
    PROVE  Executes(line)[x].value \notin LongSsids
<1> DEFINE list == Executes(line)
<1>1. CASE line \in {WifiLine(t, c) : t \in Slots \cup {Nil}, c \in Creds}
  <2>1. PICK t \in Slots \cup {Nil}, c \in Creds : line = WifiLine(t, c) BY <1>1
  <2>2. list = WifiConfig(t, c) BY <2>1 DEF Executes, WifiLine
  <2>3. CASE ~Accepted(t, c)
    <3>1. list = <<Refuse>> BY <2>2, <2>3 DEF WifiConfig
    <3> QED BY <3>1 DEF Puts, Refuse
  <2>4. CASE Accepted(t, c)
    <3>1. Parse[<<t, c>>] \in Slots \X Creds /\ Parse[<<t, c>>][2] \notin LongSsids
          BY <2>4, SketchAssumption DEF Accepted
    <3>2. PICK u \in Slots, d \in Creds : list = StoreProfile(u, d) /\ d \notin LongSsids
          BY <2>2, <2>4, <3>1 DEF WifiConfig
    <3> HIDE DEF list
    <3>3. CASE u = 0
      <4>1. list = <<CallConfigure(0, <<d, d>>), Put("wifi_ssid_0", d), Put("wifi_password_0", d),
                     Put("wifi_ssid", d), Put("wifi_password", d), Reply>>
            BY <3>2, <3>3, StoreProfileCalls
      <4>2. \A y \in 1..Len(list) : list[y].op = "put" => list[y].value = d
            BY <4>1 DEF Put, CallConfigure, Reply
      <4> QED BY <3>2, <4>2 DEF list, Puts
    <3>4. CASE u = 1
      <4>1. list = <<CallConfigure(1, <<d, d>>), Put("wifi_ssid_1", d), Put("wifi_password_1", d),
                     Reply>>
            BY <3>2, <3>4, StoreProfileCalls
      <4>2. \A y \in 1..Len(list) : list[y].op = "put" => list[y].value = d
            BY <4>1 DEF Put, CallConfigure, Reply
      <4> QED BY <3>2, <4>2 DEF list, Puts
    <3> QED BY <3>3, <3>4, Distinct
  <2> QED BY <2>3, <2>4
<1>2. CASE line \in {SetLine(k, v) : k \in {"ssh_username", "ssh_password", "ssh_host_key"},
                                     v \in Secrets}
  <2>1. PICK k \in {"ssh_username", "ssh_password", "ssh_host_key"}, v \in Secrets :
            line = SetLine(k, v)
        BY <1>2
  <2>2. list = ConfigSet(k, v) BY <2>1 DEF Executes, SetLine
  <2>3. SsidKey[s] \in {"wifi_ssid_0", "wifi_ssid_1"} BY WifiNames, Distinct
  <2> HIDE DEF list
  <2>4. ~Puts(list[x], SsidKey[s])
    <3>1. x \in 1..Len(list) BY DEF list
    <3>2. CASE k = "ssh_password"
      <4>1. list = <<Put("ssh_pw_hash", Blob(v)), RemoveKey("ssh_password"), Reply>>
            BY <2>2, <3>2, ConfigSetCalls
      <4> QED BY <2>3, <3>1, <4>1 DEF Puts, Put, RemoveKey, Reply
    <3>3. CASE k \in {"ssh_host_key", "ssh_username"}
      <4>1. PICK y : list = <<Put(k, y), Reply>> BY <2>2, <3>3, ConfigSetCalls
      <4> QED BY <2>3, <3>1, <3>3, <4>1 DEF Puts, Put, Reply
    <3> QED BY <3>2, <3>3
  <2> QED BY <2>4 DEF list
<1> QED BY <1>1, <1>2 DEF ToolLines

\* The device takes every line of the script for what it was meant.
AsMeant == \A i \in 1..Len(script) : Executes(script[i]) = Meant(script[i])

\* When all is sent and nothing failed, each key holds what was sent last.
LEMMA HoldsWanted ==
    ASSUME IInv, Delivered, host = "done", unsaved = {}, user = "tool", AsMeant,
           NEW k \in Keys, Sent(k) # {}
    PROVE  /\ nvs[k] = Last(k)
           /\ \E c \in ToolCalls : Puts(c, k) /\ c.value = Last(k)
<1>0. \A i \in 1..Len(script) : Meant(script[i]) = Ran(i) BY DEF AsMeant, Ran
<1>1. calls = << >> /\ script \in Seq(ToolLines) BY DEF IInv, AtTool
<1>2. Done = Len(script) /\ Len(script) \in Nat BY <1>1 DEF Done
<1> DEFINE m == Max(Sent(k))
           list == Ran(m)
           j == CHOOSE x \in 1..Len(list) : list[x].op = "put" /\ list[x].on = k
<1>3. m \in Sent(k) /\ \A i \in Sent(k) : m >= i
  <2>1. Sent(k) \in SUBSET (1..Len(script)) BY DEF Sent
  <2> QED BY <1>2, <2>1, Greatest
<1>4. m \in 1..Len(script) /\ \E x \in 1..Len(list) : list[x].op = "put" /\ list[x].on = k
      BY <1>0, <1>3 DEF Sent
<1>5. j \in 1..Len(list) /\ list[j].op = "put" /\ list[j].on = k BY <1>4
<1>6. Last(k) = list[j].value
  <2>1. Meant(script[m]) = list BY <1>0, <1>4
  <2> QED BY <2>1 DEF Last
<1> HIDE DEF m, j
<1>7. ~\E later \in (m + 1)..Done : PutIn(later, k)
  <2>1. SUFFICES ASSUME NEW later \in (m + 1)..Done, PutIn(later, k) PROVE FALSE OBVIOUS
  <2>2. later \in 1..Len(script) /\ later > m BY <1>2, <1>4
  <2>3. later \in Sent(k) BY <1>0, <2>1, <2>2 DEF PutIn, Puts, Sent
  <2> QED BY <1>2, <1>3, <1>4, <2>2, <2>3
<1>8. Kept(k, list[j].value) BY <1>2, <1>4, <1>5, <1>7 DEF Delivered
<1>9. NvsAfter(<< >>, nvs)[k] = list[j].value BY <1>1, <1>8 DEF Kept
<1>10. nvs[k] = list[j].value BY <1>9, NothingLeft
<1>11. list[j] \in ToolCalls
  <2>1. AtTool BY DEF IInv
  <2> QED BY <1>4, <1>5, <2>1, PutsOnKey
<1> QED BY <1>5, <1>6, <1>10, <1>11 DEF Puts

\* When the provisioning tool reports its end, the ESP-IDF image finds what was
\* sent, whatever resets and failed runs came before: unless a change failed
\* unnoticed, a line was not taken for what it meant, or a password or name does
\* not fit.
THEOREM ReadyWhenDone == Spec => []ReadyForRuntime
<1>1. ASSUME IInv, Delivered, host = "done", unsaved = {}, user = "tool", AsMeant,
             NEW s \in Slots, ProfileSent(s), Last(PasswordKey[s]) \notin LongPasswords
      PROVE  ProfileReady(s)
  <2>1. /\ SsidKey[s] \in Keys /\ PasswordKey[s] \in Keys
        /\ SsidKey[s] \in WifiKeys /\ PasswordKey[s] \in WifiKeys
        BY WifiNames, NamesAreKeys, Distinct DEF WifiKeys
  <2>2. Sent(PasswordKey[s]) # {} /\ Last(SsidKey[s]) \notin LongSsids
    <3>1. AtTool /\ script \in Seq(ToolLines) BY <1>1 DEF IInv, AtTool
    <3> DEFINE m == Max(Sent(SsidKey[s]))
    <3>2. m \in Sent(SsidKey[s])
      <4>1. Sent(SsidKey[s]) \in SUBSET (1..Len(script)) /\ Sent(SsidKey[s]) # {}
            BY <1>1 DEF Sent, ProfileSent
      <4>2. Len(script) \in Nat BY <3>1
      <4> QED BY <4>1, <4>2, Greatest
    <3> HIDE DEF m
    <3>3. /\ m \in 1..Len(script)
          /\ \E j \in 1..Len(Meant(script[m])) : Puts(Meant(script[m])[j], SsidKey[s])
          BY <3>2 DEF Sent, Puts
    <3>4. Meant(script[m]) = Executes(script[m]) /\ script[m] \in ToolLines
          BY <1>1, <3>1, <3>3 DEF AsMeant
    <3>5. \E x \in 1..Len(Meant(script[m])) : Puts(Meant(script[m])[x], PasswordKey[s])
          BY <3>3, <3>4, LineExecutes, BothPut
    <3>6. Sent(PasswordKey[s]) # {} BY <3>3, <3>5 DEF Sent, Puts
    <3>7. Last(SsidKey[s]) \notin LongSsids
      <4> DEFINE list == Meant(script[m])
                 x == CHOOSE j \in 1..Len(list) : list[j].op = "put" /\ list[j].on = SsidKey[s]
      <4>1. x \in 1..Len(list) /\ Puts(list[x], SsidKey[s]) BY <3>3 DEF Puts
      <4>2. Last(SsidKey[s]) = list[x].value BY DEF Last, m
      <4> HIDE DEF list, x
      <4>3. list = Executes(script[m]) BY <3>4 DEF list
      <4> QED BY <3>4, <4>1, <4>2, <4>3, ShortSsids
    <3> QED BY <3>6, <3>7
  <2>3. ASSUME NEW k \in WifiKeys, k \in Keys, Sent(k) # {}
        PROVE  nvs[k] = Last(k) /\ nvs[k] # Nil
    <3>1. PICK c \in ToolCalls : Puts(c, k) /\ c.value = nvs[k] /\ nvs[k] = Last(k)
          BY <1>1, <2>3, HoldsWanted
    <3>2. c.value \in Creds BY <3>1, ToolCallKinds DEF Puts, WifiKeys
    <3> QED BY <3>1, <3>2, CredIsSome
  <2> QED BY <1>1, <2>1, <2>2, <2>3 DEF LoadProfile, Fits, ProfileReady, ProfileSent
<1>2. ASSUME IInv, Delivered, host = "done", unsaved = {}, user = "tool", AsMeant,
             AuthSent, Last("ssh_username")[2] \notin LongNames
      PROVE  AuthReady
  <2>1. ASSUME NEW k \in AuthKeys
        PROVE  /\ nvs[k] = Last(k)
               /\ \E c \in ToolCalls : Puts(c, k) /\ c.value = nvs[k]
    <3>1. k \in Keys BY NamesAreKeys DEF AuthKeys
    <3> QED BY <1>2, <3>1, HoldsWanted DEF AuthSent
  <2>2. \A v \in Secrets : Str(v) # Nil /\ Blob(v) # Nil
        BY SketchAssumption DEF Values, Str, Blob
  <2>3. IsStr(nvs["ssh_username"])
    <3>1. PICK c \in ToolCalls : Puts(c, "ssh_username") /\ c.value = nvs["ssh_username"]
          BY <2>1 DEF AuthKeys
    <3>2. PICK v \in Secrets : c.value = Str(v) BY <3>1, ToolCallKinds DEF Puts, WifiKeys
    <3> QED BY <2>2, <3>1, <3>2 DEF IsStr, Str
  <2>4. ASSUME NEW k \in {"ssh_pw_hash", "ssh_host_key"} PROVE IsBlob(nvs[k])
    <3>1. PICK c \in ToolCalls : Puts(c, k) /\ c.value = nvs[k] BY <2>1 DEF AuthKeys
    <3>2. PICK v \in Secrets : c.value = Blob(v) BY <3>1, ToolCallKinds DEF Puts, WifiKeys
    <3> QED BY <2>2, <3>1, <3>2 DEF IsBlob, Blob
  <2> QED BY <1>2, <2>1, <2>3, <2>4 DEF LoadAuth, AuthKeys, AuthReady
<1>3. user \in {"tool", "operator", "tester"} /\ (user # "tool" => host = "sending")
      => (IInv /\ Delivered => ReadyForRuntime)
  <2> SUFFICES ASSUME user # "tool" => host = "sending", IInv, Delivered,
                      host = "done", unsaved = {}, AsMeant
               PROVE  /\ \A s \in Slots :
                             ProfileSent(s) /\ Last(PasswordKey[s]) \notin LongPasswords =>
                                 ProfileReady(s)
                      /\ AuthSent /\ Last("ssh_username")[2] \notin LongNames => AuthReady
      BY DEF ReadyForRuntime, AsMeant
  <2> QED BY <1>1, <1>2
<1>4. Spec => [](user \in {"tool", "operator", "tester"} /\ (user # "tool" => host = "sending"))
  <2> DEFINE Who == user \in {"tool", "operator", "tester"}
                    /\ (user # "tool" => host = "sending")
  <2>1. Init => Who BY SketchAssumption DEF Init
  <2>2. ASSUME Who, [Next]_vars PROVE Who'
    <3>1. CASE ToolSends BY <2>2, <3>1 DEF ToolSends
    <3>2. CASE Timeout \/ RunAgain BY <2>2, <3>2 DEF Timeout, RunAgain
    <3>3. CASE Call
      <4>1. user' = user /\ (host' = host \/ user = "tool")
            BY <3>3 DEF Call, PutString, Remove, ClearStore, Store, WifiCall, WriteLed,
                        CreateTask, DeleteTask, MarkStopped, Answer, RefuseLine, Calling, NoTool
      <4> QED BY <2>2, <4>1
    <3>4. CASE Setup \/ Reset \/ Type \/ Blink \/ LoopTick \/ Air \/ Fail \/ Clock
               \/ UNCHANGED vars
      <4>1. user' = user /\ host' = host
            BY <3>4 DEF Setup, Reset, Type, Types, Blink, LoopTick, Air, Fail, Clock, Aside,
                        vars, tool
      <4> QED BY <2>2, <4>1
    <3> QED BY <2>2, <3>1, <3>2, <3>3, <3>4 DEF Next
  <2> QED BY <2>1, <2>2, PTL DEF Spec
<1> QED BY <1>3, <1>4, Inductive, KeepsWhatWasSent, PTL
=============================================================================
