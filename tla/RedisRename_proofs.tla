------------------------- MODULE RedisRename_proofs -------------------------
(***************************************************************************)
(* Proofs about the commands of the client that span servers.  First rename() *)
(* and renamenx(), for any names, servers and values, any number of tries   *)
(* and any interleaving with the writes of other clients; then              *)
(* sinterstore(), sunionstore() and smove(), for any keys, members and      *)
(* distribution of the keys over servers.                                   *)
(***************************************************************************)
EXTENDS RedisRename, SequenceTheorems, TLAPS

(* A value as a server holds it, and a store of such values.                *)
Values == [t : Types \cup {"none"}, c : Seq(Elements)]
Proper(v) ==
  v \in Values /\ (v.c = <<>> <=> v = Missing) /\ (v.t = "none" <=> v = Missing) /\ Distinct(v)
Typed(s) == s \in [Keys -> Values] /\ \A k \in Keys : Proper(s[k])

(* The commands of a call between two servers, and those behind type().     *)
Between == {"exists", "type", "read", "set", "clear", "push", "remove"}
Copying == {"read", "set", "clear", "push", "remove"}

(* What the variables hold.                                                 *)
ShapeInv ==
  /\ TypeOK
  /\ Typed(store) /\ Proper(orig) /\ buf \in Seq(Elements)
  /\ pc \in Copying => kind \in {"string", "list", "set"}
  /\ pc = "set" => kind = "string" /\ buf # <<>>
  /\ pc \in {"clear", "push"} => kind \in {"list", "set"}

ServersInv == pc \in Between => Home[key] # Home[new]

(* The store keeps the value: the name of the handle has it, or no value and *)
(* the new name has it, as far as other clients let it be.                  *)
Keeps(s) ==
  \/ s[key] = orig
  \/ s[key] = Missing /\ (new \in touched \/ s[new] = orig)

(* The name of the handle has lost the value only by a try that threw, and   *)
(* then the next try stops at type().                                       *)
KeyInv ==
  Unfinished /\ key \notin touched =>
    \/ store[key] = orig
    \/ Keeps(store) /\ threw /\ pc \in {"idle", "at_once", "exists", "type"}

(* The copy: what is there and what is still to come make up the value.     *)
CopyInv ==
  key \notin touched =>
    /\ pc \in Copying => kind = orig.t
    /\ pc \in {"set", "clear"} => buf = orig.c
    /\ pc = "push" => \/ new \in touched
                      \/ store[new].t \in {"none", kind} /\ store[new].c \o buf = orig.c
    /\ pc = "remove" => new \in touched \/ store[new] = orig

(* renamenx() past exists() finds the new name free but for a race.         *)
RaceInv ==
  call.op = "renamenx" /\ pc \in {"type", "read", "set", "clear"} /\ ~raced
    => store[new] = Missing

(* The inductive invariant.                                                 *)
RenameInv == ShapeInv /\ ServersInv /\ KeyInv /\ CopyInv /\ RaceInv

-----------------------------------------------------------------------------
(* Values.                                                                  *)

LEMMA ValueFacts ==
  /\ Missing \in Values /\ Missing.t = "none" /\ Missing.c = <<>> /\ Proper(Missing)
  /\ Foreign \in Values /\ Foreign # Missing /\ Proper(Foreign) /\ Foreign.t = "string"
<1>1. Missing \in Values /\ Missing.t = "none" /\ Missing.c = <<>>
  BY DEF Missing, Values
<1>2. Foreign \in Values /\ Foreign.t = "string" /\ Foreign.c # <<>>
  <2>1. <<"foreign">> \in Seq(Elements) /\ Len(<<"foreign">>) = 1
    <3>1. "foreign" \in Elements
      BY RenameAssumption
    <3>2. \A S, e : e \in S => <<e>> \in Seq(S) /\ Len(<<e>>) = 1
      OBVIOUS
    <3>3. QED
      BY <3>1, <3>2, Zenon
  <2>2. <<"foreign">> # <<>>
    BY <2>1, EmptySeq
  <2>3. QED
    BY <2>1, <2>2 DEF Foreign, Values, Types
<1>3. QED
  BY <1>1, <1>2 DEF Proper, Distinct

LEMMA ContentsProper == ASSUME NEW v \in Contents PROVE Proper(v) /\ v # Missing
<1>1. v \in [t : Types, c : Seq(Elements)] /\ v.c # <<>> /\ Distinct(v)
  BY RenameAssumption
<1>2. v \in Values
  BY <1>1 DEF Values
<1>3. v # Missing
  BY <1>1, ValueFacts
<1>4. v.t # "none"
  BY <1>1 DEF Types
<1>5. QED
  BY <1>1, <1>2, <1>3, <1>4 DEF Proper

(* Moving the first element still to come to the end of what is there       *)
(* leaves the whole as it was.                                              *)
LEMMA MoveElement ==
  ASSUME NEW S, NEW a \in Seq(S), NEW b \in Seq(S), b # <<>>
  PROVE  /\ Append(a, Head(b)) \in Seq(S) /\ Tail(b) \in Seq(S)
         /\ Append(a, Head(b)) # <<>>
         /\ Append(a, Head(b)) \o Tail(b) = a \o b
         /\ Len(b) = 1 => Append(a, Head(b)) = a \o b /\ Tail(b) = <<>>
         /\ Len(b) # 1 => Tail(b) # <<>>
<1>1. /\ Head(b) \in S /\ Tail(b) \in Seq(S) /\ Len(b) \in Nat \ {0}
      /\ Len(Tail(b)) = Len(b) - 1
      /\ \A j \in 1 .. Len(b) - 1 : Tail(b)[j] = b[j + 1]
      /\ Head(b) = b[1]
  OBVIOUS
<1>2. /\ Append(a, Head(b)) \in Seq(S)
      /\ Len(Append(a, Head(b))) = Len(a) + 1
  BY <1>1
<1>3. Append(a, Head(b)) # <<>>
  BY <1>2
<1>4. Append(a, Head(b)) \o Tail(b) = a \o b
  <2> DEFINE x == Append(a, Head(b)) \o Tail(b)
             y == a \o b
  <2>1. x \in Seq(S) /\ y \in Seq(S) /\ Len(x) = Len(a) + Len(b) /\ Len(y) = Len(x)
    BY <1>1, <1>2
  <2>2. \A j \in 1 .. Len(x) : x[j] = y[j]
    BY <1>1, <1>2
  <2> HIDE DEF x, y
  <2>3. x = y
    BY <2>1, <2>2, SeqEqual
  <2>4. QED
    BY <2>3 DEF x, y
<1>5. Tail(b) = <<>> <=> Len(Tail(b)) = 0
  <2>1. \A q \in Seq(S) : q # <<>> => Len(q) \in Nat \ {0}
    BY EmptySeq, Zenon
  <2>2. Len(<<>>) = 0
    OBVIOUS
  <2>3. QED
    BY <1>1, <2>1, <2>2
<1>6. Append(a, Head(b)) \o <<>> = Append(a, Head(b))
  BY <1>2, ConcatEmptySeq
<1>7. Len(b) = 1 <=> Tail(b) = <<>>
  BY <1>1, <1>5
<1>8. QED
  BY <1>1, <1>2, <1>3, <1>4, <1>5, <1>6, <1>7

(* RPUSH and SADD give values of their type.                                *)
LEMMA ExtendedProper ==
  ASSUME NEW v, Proper(v), NEW t \in {"list", "set"}, v.t \in {"none", t}, NEW e \in Elements
  PROVE  /\ Proper(Extended(v, t, e)) /\ Extended(v, t, e).t = t
         /\ \A x : In(x, v.c) => In(x, Extended(v, t, e).c)
<1>1. v.c \in Seq(Elements) /\ (v.c = <<>> <=> v = Missing) /\ Distinct(v)
  BY DEF Proper, Values
<1>2. PICK s : s = v.c
  OBVIOUS
<1> DEFINE w == Extended(v, t, e)
<1>3. w.t = t /\ w.c = IF t = "set" /\ In(e, s) THEN s ELSE Append(s, e)
  BY <1>2 DEF Extended
<1>4. DOMAIN s = 1 .. Len(s) /\ Len(s) \in Nat /\ s \in Seq(Elements)
  BY <1>1, <1>2, LenProperties
<1>5. /\ Append(s, e) \in Seq(Elements) /\ Len(Append(s, e)) = Len(s) + 1
      /\ \A j \in 1 .. Len(s) : Append(s, e)[j] = s[j]
      /\ Append(s, e)[Len(s) + 1] = e /\ DOMAIN Append(s, e) = 1 .. Len(s) + 1
  BY <1>4, AppendProperties
<1>6. w.c \in Seq(Elements) /\ w.c # <<>>
  <2>1. CASE t = "set" /\ In(e, s)
    <3>1. w.c = s
      BY <1>3, <2>1
    <3>2. DOMAIN s # {}
      BY <2>1 DEF In
    <3>3. QED
      BY <1>4, <3>1, <3>2
  <2>2. CASE ~(t = "set" /\ In(e, s))
    BY <1>3, <1>4, <1>5, <2>2
  <2>3. QED
    BY <2>1, <2>2
<1>7. w \in Values
  BY <1>3, <1>6 DEF Extended, Values, Types
<1>8. Distinct(w)
  <2> SUFFICES ASSUME t = "set" PROVE \A i, j \in DOMAIN w.c : w.c[i] = w.c[j] => i = j
    BY <1>3 DEF Distinct
  <2>1. \A i, j \in DOMAIN s : s[i] = s[j] => i = j
    <3>1. CASE v.t = "none"
      <4>1. s = <<>>
        BY <1>2, <3>1, ValueFacts DEF Proper
      <4>2. QED
        BY <4>1
    <3>2. CASE v.t = "set"
      BY <1>1, <1>2, <3>2 DEF Distinct
    <3>3. QED
      BY <3>1, <3>2
  <2>2. CASE In(e, s)
    BY <1>3, <2>1, <2>2
  <2>3. CASE ~In(e, s)
    <3>1. w.c = Append(s, e)
      BY <1>3, <2>3
    <3>2. \A j \in 1 .. Len(s) : s[j] # e
      BY <1>4, <2>3 DEF In
    <3>3. QED
      BY <1>4, <1>5, <2>1, <3>1, <3>2
  <2>4. QED
    BY <2>2, <2>3
<1>9. \A x : In(x, v.c) => In(x, w.c)
  <2>1. CASE t = "set" /\ In(e, s)
    BY <1>2, <1>3, <2>1
  <2>2. CASE ~(t = "set" /\ In(e, s))
    BY <1>2, <1>3, <1>4, <1>5, <2>2 DEF In
  <2>3. QED
    BY <2>1, <2>2
<1>10. w # Missing
  BY <1>6, ValueFacts
<1>11. QED
  BY <1>3, <1>6, <1>7, <1>8, <1>9, <1>10 DEF Proper

-----------------------------------------------------------------------------
(* What a command, answered or not, leaves in the store.                    *)

SafeStore(s) == Typed(s) /\ (key \notin touched => Keeps(s))

(* The names of a call and the values, as the proofs below use them.        *)
LEMMA CallFacts ==
  ASSUME RenameInv
  PROVE  /\ key \in Keys /\ new \in Keys /\ Proper(orig) /\ Typed(store)
         /\ store \in [Keys -> Values] /\ Proper(store[key]) /\ Proper(store[new])
         /\ pc \in Between => key # new
         /\ buf \in Seq(Elements)
<1>1. key \in Keys /\ new \in Keys
  BY DEF RenameInv, ShapeInv, TypeOK, new
<1>2. QED
  BY <1>1 DEF RenameInv, ShapeInv, ServersInv, Typed

LEMMA InvSafeStore ==
  ASSUME RenameInv, Unfinished
  PROVE  SafeStore(store)
BY DEF RenameInv, ShapeInv, KeyInv, Keeps, SafeStore

(* One key changed.                                                         *)
LEMMA TypedExcept ==
  ASSUME NEW s, Typed(s), NEW k \in Keys, NEW v, Proper(v)
  PROVE  /\ Typed([s EXCEPT ![k] = v]) /\ [s EXCEPT ![k] = v][k] = v
         /\ \A j \in Keys \ {k} : [s EXCEPT ![k] = v][j] = s[j]
BY DEF Typed, Proper

LEMMA RenamedSafe ==
  ASSUME RenameInv, pc = "at_once"
  PROVE  /\ SafeStore(Renamed)
         /\ store[key] # Missing /\ ~(call.op = "renamenx" /\ store[new] # Missing)
              /\ key \notin touched
              => Renamed[new] = orig /\ (key # new => Renamed[key] = Missing)
         /\ call.op = "renamenx" /\ store[new] # Missing => Renamed = store
         /\ \A k \in Keys \ {key, new} : Renamed[k] = store[k]
<1> USE CallFacts, ValueFacts
<1>1. SafeStore(store)
  BY InvSafeStore DEF Unfinished
<1>2. CASE store[key] = Missing \/ key = new \/ (call.op = "renamenx" /\ store[new] # Missing)
  <2>1. Renamed = store
    BY <1>2 DEF Renamed
  <2>2. QED
    BY <1>1, <1>2, <2>1 DEF SafeStore, Keeps
<1>3. CASE ~(store[key] = Missing \/ key = new \/ (call.op = "renamenx" /\ store[new] # Missing))
  <2>1. /\ Renamed = [store EXCEPT ![new] = store[key], ![key] = Missing]
        /\ key # new
    BY <1>3 DEF Renamed
  <2>2. /\ Renamed \in [Keys -> Values] /\ Renamed[new] = store[key]
        /\ Renamed[key] = Missing
        /\ \A k \in Keys \ {key, new} : Renamed[k] = store[k]
    BY <2>1
  <2>3. Typed(Renamed)
    BY <2>2 DEF Typed
  <2>4. key \notin touched => store[key] = orig
    BY <1>1, <1>3 DEF SafeStore, Keeps
  <2>5. QED
    BY <1>3, <2>2, <2>3, <2>4 DEF SafeStore, Keeps
<1>4. QED
  BY <1>2, <1>3

(* Before the last command of a copy the old name is as it was.             *)
LEMMA OldNameKept ==
  ASSUME RenameInv, pc \in Copying
  PROVE  key # new /\ (key \notin touched => store[key] = orig)
<1>1. pc \in Between
  BY DEF Copying, Between
<1>2. Unfinished /\ pc \notin {"idle", "at_once", "exists", "type"}
  BY DEF Copying, Unfinished
<1>3. QED
  BY <1>1, <1>2, CallFacts DEF RenameInv, KeyInv

(* Changing the new name only.                                              *)
LEMMA NewNameSafe ==
  ASSUME RenameInv, pc \in Copying, NEW v, Proper(v)
  PROVE  /\ SafeStore([store EXCEPT ![new] = v])
         /\ [store EXCEPT ![new] = v][key] = store[key] /\ [store EXCEPT ![new] = v][new] = v
         /\ \A k \in Keys \ {new} : [store EXCEPT ![new] = v][k] = store[k]
<1>1. key # new /\ (key \notin touched => store[key] = orig)
  BY OldNameKept
<1>2. /\ Typed([store EXCEPT ![new] = v]) /\ [store EXCEPT ![new] = v][new] = v
      /\ \A j \in Keys \ {new} : [store EXCEPT ![new] = v][j] = store[j]
  BY CallFacts, TypedExcept
<1>3. [store EXCEPT ![new] = v][key] = store[key]
  BY <1>1, <1>2, CallFacts
<1>4. QED
  BY <1>1, <1>2, <1>3 DEF SafeStore, Keeps

LEMMA StoredSafe ==
  ASSUME RenameInv, pc = "set"
  PROVE  /\ SafeStore(Stored) /\ Stored[key] = store[key]
         /\ key \notin touched => Stored[new] = orig
         /\ \A k \in Keys \ {new} : Stored[k] = store[k]
<1> DEFINE v == [t |-> "string", c |-> buf]
<1>1. pc \in Copying /\ buf \in Seq(Elements) /\ buf # <<>> /\ kind = "string"
  BY DEF Copying, RenameInv, ShapeInv
<1>2. v.t = "string" /\ v.c = buf /\ v \in Values
  BY <1>1 DEF Values, Types
<1>3. Proper(v)
  BY <1>1, <1>2, ValueFacts DEF Proper, Distinct
<1>4. key \notin touched => v = orig
  <2>1. key \notin touched => orig.t = "string" /\ orig.c = buf
    BY <1>1 DEF RenameInv, CopyInv
  <2>2. orig \in Values
    BY CallFacts DEF Proper
  <2>3. QED
    BY <2>1, <2>2 DEF Values
<1>5. Stored = [store EXCEPT ![new] = v]
  BY DEF Stored
<1> HIDE DEF v
<1>6. QED
  BY <1>1, <1>3, <1>4, <1>5, NewNameSafe

LEMMA ClearedSafe ==
  ASSUME RenameInv, pc = "clear"
  PROVE  /\ SafeStore(Cleared) /\ Cleared[key] = store[key] /\ Cleared[new] = Missing
         /\ \A k \in Keys \ {new} : Cleared[k] = store[k]
BY NewNameSafe, ValueFacts DEF Copying, Cleared

LEMMA RemovedSafe ==
  ASSUME RenameInv, pc = "remove"
  PROVE  /\ SafeStore(Removed) /\ Removed[key] = Missing
         /\ key \notin touched => new \in touched \/ Removed[new] = orig
         /\ \A k \in Keys \ {key} : Removed[k] = store[k]
<1>1. key # new
  BY OldNameKept DEF Copying
<1>2. /\ Typed(Removed) /\ Removed[key] = Missing
      /\ \A j \in Keys \ {key} : Removed[j] = store[j]
  BY CallFacts, ValueFacts, TypedExcept DEF Removed
<1>3. Removed[new] = store[new]
  BY <1>1, <1>2, CallFacts
<1>4. key \notin touched => new \in touched \/ store[new] = orig
  BY DEF RenameInv, CopyInv
<1>5. QED
  BY <1>2, <1>3, <1>4 DEF SafeStore, Keeps

(* In a set's elements the next one is not among those already there.       *)
LEMMA NextIsNew ==
  ASSUME NEW S, NEW a \in Seq(S), NEW b \in Seq(S), b # <<>>,
         \A i, j \in DOMAIN (a \o b) : (a \o b)[i] = (a \o b)[j] => i = j
  PROVE  ~In(Head(b), a)
<1>1. /\ Len(a) \in Nat /\ Len(b) \in Nat \ {0} /\ DOMAIN a = 1 .. Len(a)
      /\ a \o b \in Seq(S) /\ Len(a \o b) = Len(a) + Len(b) /\ Head(b) = b[1]
  BY ConcatProperties
<1>2. DOMAIN (a \o b) = 1 .. Len(a) + Len(b)
  BY <1>1
<1>3. (a \o b)[Len(a) + 1] = b[1]
  BY <1>1
<1>4. \A j \in 1 .. Len(a) : (a \o b)[j] = a[j]
  BY <1>1
<1>5. SUFFICES ASSUME NEW j \in DOMAIN a, a[j] = Head(b) PROVE FALSE
  BY DEF In
<1>6. j \in 1 .. Len(a) /\ j \in DOMAIN (a \o b) /\ Len(a) + 1 \in DOMAIN (a \o b)
      /\ j # Len(a) + 1
  BY <1>1, <1>2
<1>7. (a \o b)[j] = (a \o b)[Len(a) + 1]
  BY <1>1, <1>3, <1>4, <1>5, <1>6
<1>8. QED
  BY <1>6, <1>7

LEMMA PushedSafe ==
  ASSUME RenameInv, pc = "push"
  PROVE  /\ SafeStore(Pushed) /\ Pushed[key] = store[key]
         /\ ~CanPush => Pushed = store
         /\ \A k \in Keys \ {new} : Pushed[k] = store[k]
         /\ CanPush /\ key \notin touched /\ new \notin touched =>
              /\ Pushed[new].t = kind /\ Pushed[new].c \o Tail(buf) = orig.c
              /\ Len(buf) = 1 => Pushed[new] = orig
         /\ \A x : In(x, store[new].c) => In(x, Pushed[new].c)
         /\ Tail(buf) \in Seq(Elements)
         /\ Len(buf) # 1 => Tail(buf) # <<>>
<1>1. /\ pc \in Copying /\ buf # <<>> /\ buf \in Seq(Elements) /\ kind \in {"list", "set"}
      /\ Unfinished
  BY DEF RenameInv, ShapeInv, TypeOK, Copying, Unfinished
<1>2. /\ Head(buf) \in Elements /\ Tail(buf) \in Seq(Elements)
      /\ Len(buf) # 1 => Tail(buf) # <<>>
  <2>1. Head(buf) \in Elements
    BY <1>1, HeadTailProperties
  <2>2. <<>> \in Seq(Elements)
    BY EmptySeq
  <2>3. QED
    BY <1>1, <2>1, <2>2, MoveElement
<1>3. CASE ~CanPush
  <2>1. Pushed = store
    BY <1>3 DEF Pushed
  <2>2. QED
    BY <1>1, <1>2, <1>3, <2>1, InvSafeStore
<1>4. CASE CanPush
  <2> DEFINE v == Extended(store[new], kind, Head(buf))
             a == store[new].c
  <2>1. Pushed = [store EXCEPT ![new] = v]
    BY <1>4 DEF Pushed
  <2>2. /\ Proper(v) /\ v.t = kind /\ \A x : In(x, store[new].c) => In(x, v.c)
    BY <1>1, <1>2, <1>4, CallFacts, ExtendedProper DEF CanPush
  <2>3. /\ SafeStore(Pushed) /\ Pushed[key] = store[key] /\ Pushed[new] = v
        /\ \A k \in Keys \ {new} : Pushed[k] = store[k]
    <3> HIDE DEF v
    <3>1. QED
      BY <1>1, <2>1, <2>2, NewNameSafe
  <2>4. ASSUME key \notin touched, new \notin touched
        PROVE  v.c \o Tail(buf) = orig.c /\ (Len(buf) = 1 => v = orig)
    <3>1. kind = orig.t /\ a \o buf = orig.c
      BY <1>1, <2>4 DEF RenameInv, CopyInv
    <3>2. a \in Seq(Elements) /\ orig \in Values /\ Distinct(orig)
      BY CallFacts DEF Proper, Values
    <3>3. v.c = Append(a, Head(buf))
      <4>1. v.c = IF kind = "set" /\ In(Head(buf), a) THEN a ELSE Append(a, Head(buf))
        BY DEF Extended
      <4>2. kind = "set" => \A i, j \in DOMAIN (a \o buf) : (a \o buf)[i] = (a \o buf)[j] => i = j
        BY <3>1, <3>2 DEF Distinct
      <4> HIDE DEF a, v
      <4>3. kind = "set" => ~In(Head(buf), a)
        BY <1>1, <3>2, <4>2, NextIsNew
      <4>4. QED
        BY <4>1, <4>3
    <3> HIDE DEF a, v
    <3>4. /\ Append(a, Head(buf)) \in Seq(Elements) /\ Tail(buf) \in Seq(Elements)
          /\ Append(a, Head(buf)) # <<>>
          /\ Append(a, Head(buf)) \o Tail(buf) = a \o buf
          /\ Len(buf) = 1 => Append(a, Head(buf)) = a \o buf /\ Tail(buf) = <<>>
          /\ Len(buf) # 1 => Tail(buf) # <<>>
      <4>1. a \in Seq(Elements) /\ buf \in Seq(Elements) /\ buf # <<>>
        BY <1>1, <3>2
      <4>2. QED
        BY <4>1, MoveElement
    <3>5. Len(buf) = 1 => v = orig
      <4>1. v \in Values
        BY <2>2 DEF Proper
      <4>2. Len(buf) = 1 => v.c = orig.c /\ v.t = orig.t
        BY <2>2, <3>1, <3>3, <3>4
      <4>3. QED
        BY <3>2, <4>1, <4>2 DEF Values
    <3>6. QED
      BY <3>1, <3>3, <3>4, <3>5
  <2> HIDE DEF v, a
  <2>5. QED
    BY <1>2, <1>4, <2>2, <2>3, <2>4
<1>5. QED
  BY <1>3, <1>4

-----------------------------------------------------------------------------
(* How a call ends.                                                         *)

LEMMA ReturnShape ==
  ASSUME RenameInv, NEW r \in {"ok", "false", "throw"}, Return(r), Typed(store')
  PROVE  ShapeInv' /\ ServersInv' /\ CopyInv' /\ RaceInv'
<1>1. /\ pc' = "idle" /\ ret' = r /\ call' = call /\ raced' = FALSE /\ buf' = <<>>
      /\ kind' = "none" /\ key' \in {key, new} /\ touched' \in {touched, {}}
      /\ orig' \in {orig, Missing} /\ writes' = writes
      /\ threw' = (r = "throw" \/ (r = "false" /\ threw))
  BY DEF Return
<1>2. <<>> \in Seq(Elements)
  BY EmptySeq
<1>3. \A k \in Keys : /\ store'[k].t \in Types \cup {"none"}
                      /\ store'[k].c = <<>> <=> store'[k] = Missing
                      /\ Distinct(store'[k])
  BY DEF Typed, Proper, Values
<1>4. threw' \in BOOLEAN /\ raced' \in BOOLEAN
  BY <1>1
<1>5. key' \in Keys
  BY <1>1, CallFacts
<1>6. TypeOK'
  <2>1. /\ call \in [op : {"rename", "renamenx"}, new : Keys] /\ touched \subseteq Keys
        /\ writes \in Nat
    BY DEF RenameInv, ShapeInv, TypeOK
  <2>2. QED
    BY <1>1, <1>3, <1>4, <1>5, <2>1 DEF TypeOK
<1>7. Proper(orig')
  BY <1>1, CallFacts, ValueFacts
<1>8. ShapeInv'
  BY <1>1, <1>2, <1>6, <1>7 DEF ShapeInv, Copying
<1>9. QED
  BY <1>1, <1>8 DEF ServersInv, CopyInv, RaceInv, Between, Copying

LEMMA ThrowKeepsInv ==
  ASSUME RenameInv, Return("throw"), SafeStore(store')
  PROVE  RenameInv'
<1>1. /\ pc' = "idle" /\ key' = key /\ orig' = orig /\ touched' = touched
      /\ threw' = TRUE /\ new' = new
  BY DEF Return, new
<1>2. Typed(store')
  BY DEF SafeStore
<1>3. KeyInv'
  BY <1>1 DEF SafeStore, KeyInv, Keeps
<1>4. QED
  BY <1>2, <1>3, ReturnShape DEF RenameInv

LEMMA OkKeepsInv ==
  ASSUME RenameInv, Return("ok"), Typed(store')
  PROVE  RenameInv'
<1>1. pc' = "idle" /\ threw' = FALSE
  BY DEF Return
<1>2. KeyInv'
  BY <1>1 DEF KeyInv, Unfinished
<1>3. QED
  BY <1>2, ReturnShape DEF RenameInv

LEMMA FalseKeepsInv ==
  ASSUME RenameInv, Return("false"), UNCHANGED store, pc # "idle"
  PROVE  RenameInv'
<1>1. pc' = "idle" /\ key' = key /\ call' = call /\ new' = new /\ (threw' <=> threw)
  BY DEF Return, new
<1>2. threw' => orig' = orig /\ touched' = touched
  BY DEF Return
<1>3. Typed(store')
  BY CallFacts
<1>4. SafeStore(store)
  BY InvSafeStore DEF Unfinished
<1>5. KeyInv'
  BY <1>1, <1>2, <1>4 DEF KeyInv, Unfinished, SafeStore, Keeps
<1>6. QED
  BY <1>3, <1>5, ReturnShape DEF RenameInv

-----------------------------------------------------------------------------
(* Every step keeps the invariant.                                          *)

LEMMA BeginKeeps ==
  ASSUME RenameInv, NEW op \in {"rename", "renamenx"}, NEW n \in Keys, Begin(op, n)
  PROVE  RenameInv'
<1>1. /\ store' = store /\ key' = key /\ kind' = kind /\ buf' = buf /\ ret' = ret
      /\ threw' = threw /\ touched' = touched /\ raced' = raced /\ writes' = writes
      /\ new' = n /\ call' = [op |-> op, new |-> n] /\ pc = "idle"
      /\ pc' = IF Home[key] = Home[n] THEN "at_once"
               ELSE IF op = "renamenx" THEN "exists" ELSE "type"
      /\ orig' = IF threw THEN orig ELSE store[key]
  BY DEF Begin, new
<1>2. threw => new' = new
  BY DEF Begin, new
<1>3. pc' \in {"at_once", "exists", "type"}
  BY <1>1
<1>4. Proper(orig')
  BY <1>1, CallFacts
<1>5. TypeOK'
  <2>1. call' \in [op : {"rename", "renamenx"}, new : Keys]
    BY <1>1
  <2>2. QED
    BY <1>1, <1>3, <2>1 DEF RenameInv, ShapeInv, TypeOK
<1>6. ShapeInv'
  BY <1>1, <1>3, <1>4, <1>5 DEF RenameInv, ShapeInv, Copying
<1>7. ServersInv'
  BY <1>1 DEF ServersInv, Between
<1>8. KeyInv'
  <2>1. CASE threw
    <3>1. SafeStore(store)
      BY <2>1, InvSafeStore DEF Unfinished
    <3>2. QED
      BY <1>1, <1>2, <1>3, <2>1, <3>1 DEF KeyInv, SafeStore, Keeps
  <2>2. CASE ~threw
    BY <1>1, <2>2 DEF KeyInv
  <2>3. QED
    BY <2>1, <2>2
<1>9. CopyInv'
  BY <1>3 DEF CopyInv, Copying
<1>10. RaceInv'
  BY <1>1, <1>3 DEF RaceInv
<1>11. QED
  BY <1>6, <1>7, <1>8, <1>9, <1>10 DEF RenameInv

(* A step that goes on to another command of the copy.                      *)
LEMMA GoKeeps ==
  ASSUME RenameInv, pc \in Between, NEW p \in {"type"} \cup Copying, Go(p),
         SafeStore(store), Typed(store'), touched' \subseteq touched, key \notin touched' => key \notin touched,
         buf' \in Seq(Elements), kind' \in Types \cup {"none"},
         p \in Copying => kind' \in {"string", "list", "set"},
         p = "set" => kind' = "string" /\ buf' # <<>>,
         p \in {"clear", "push"} => kind' \in {"list", "set"},
         p = "push" => buf' # <<>>,
         key \notin touched => store'[key] = orig \/ (p = "type" /\ UNCHANGED <<store, touched>> /\ pc = "exists"),
         key \notin touched =>
           /\ p \in Copying => kind' = orig.t
           /\ p \in {"set", "clear"} => buf' = orig.c
           /\ p = "push" => \/ new \in touched'
                            \/ store'[new].t \in {"none", kind'} /\ store'[new].c \o buf' = orig.c
           /\ p = "remove" => new \in touched' \/ store'[new] = orig,
         call.op = "renamenx" /\ p \in {"type", "read", "set", "clear"} /\ ~raced =>
           store'[new] = Missing
  PROVE  RenameInv'
<1>1. /\ pc' = p /\ key' = key /\ orig' = orig /\ call' = call /\ ret' = ret
      /\ threw' = threw /\ raced' = raced /\ writes' = writes /\ new' = new
  BY DEF Go, new
<1>2. TypeOK'
  <2>1. \A k \in Keys : /\ store'[k].t \in Types \cup {"none"}
                        /\ store'[k].c = <<>> <=> store'[k] = Missing
                        /\ Distinct(store'[k])
    BY DEF Typed, Proper, Values
  <2>2. /\ key \in Keys /\ call \in [op : {"rename", "renamenx"}, new : Keys] /\ touched \subseteq Keys
        /\ writes \in Nat /\ ret \in {"ok", "false", "throw"} /\ threw \in BOOLEAN /\ raced \in BOOLEAN
    BY DEF RenameInv, ShapeInv, TypeOK
  <2>3. p \in {"type", "read", "set", "clear", "push", "remove"}
    BY DEF Copying
  <2>4. QED
    BY <1>1, <2>1, <2>2, <2>3 DEF TypeOK
<1>3. ShapeInv'
  BY <1>1, <1>2, CallFacts DEF ShapeInv
<1>4. ServersInv'
  BY <1>1 DEF RenameInv, ServersInv
<1>5. KeyInv'
  <2> SUFFICES ASSUME key \notin touched'
               PROVE  \/ store'[key] = orig
                      \/ Keeps(store)' /\ threw /\ p \in {"idle", "at_once", "exists", "type"}
    BY <1>1 DEF KeyInv
  <2>1. CASE store'[key] = orig
    BY <2>1
  <2>2. CASE p = "type" /\ UNCHANGED <<store, touched>> /\ pc = "exists"
    BY <1>1, <2>2 DEF RenameInv, KeyInv, Keeps, Unfinished
  <2>3. QED
    BY <2>1, <2>2
<1>6. CopyInv'
  BY <1>1 DEF CopyInv
<1>7. RaceInv'
  BY <1>1 DEF RaceInv
<1>8. QED
  BY <1>3, <1>4, <1>5, <1>6, <1>7 DEF RenameInv

LEMMA AtOnceKeeps == ASSUME RenameInv, AtOnce PROVE RenameInv'
<1>1. pc = "at_once" /\ store' = Renamed
  BY DEF AtOnce
<1>2. SafeStore(store') /\ Typed(store')
  BY <1>1, RenamedSafe DEF SafeStore
<1>3. CASE store[key] = Missing
  <2>1. Return("throw")
    BY <1>3 DEF AtOnce
  <2>2. QED
    BY <1>2, <2>1, ThrowKeepsInv
<1>4. CASE store[key] # Missing /\ call.op = "renamenx" /\ store[new] # Missing
  <2>1. Return("false") /\ store' = store
    BY <1>1, <1>4, RenamedSafe DEF AtOnce
  <2>2. QED
    BY <1>1, <2>1, FalseKeepsInv
<1>5. CASE store[key] # Missing /\ ~(call.op = "renamenx" /\ store[new] # Missing)
  <2>1. Return("ok")
    BY <1>5 DEF AtOnce
  <2>2. QED
    BY <1>2, <2>1, OkKeepsInv
<1>6. QED
  BY <1>3, <1>4, <1>5

LEMMA ExistsKeeps == ASSUME RenameInv, exists PROVE RenameInv'
<1>1. pc = "exists" /\ store' = store /\ pc \in Between /\ Unfinished
  BY DEF exists, Between, Unfinished
<1>2. SafeStore(store) /\ Typed(store')
  BY <1>1, InvSafeStore DEF SafeStore
<1>3. CASE store[new] # Missing
  <2>1. Return("false")
    BY <1>3 DEF exists
  <2>2. QED
    BY <1>1, <2>1, FalseKeepsInv
<1>4. CASE store[new] = Missing
  <2>1. Go("type") /\ buf' = buf /\ kind' = kind /\ touched' = touched
    BY <1>4 DEF exists
  <2>2. kind \in Types \cup {"none"} /\ buf \in Seq(Elements)
    BY DEF RenameInv, ShapeInv, TypeOK
  <2>3. QED
    BY <1>1, <1>2, <1>4, <2>1, <2>2, GoKeeps DEF Copying
<1>5. QED
  BY <1>3, <1>4

LEMMA TypeKeeps == ASSUME RenameInv, type PROVE RenameInv'
<1>1. pc = "type" /\ store' = store /\ pc \in Between /\ Unfinished
  BY DEF type, Between, Unfinished
<1>2. SafeStore(store) /\ Typed(store')
  BY <1>1, InvSafeStore DEF SafeStore
<1>3. CASE store[key].t = "none"
  <2>1. Return("ok")
    BY <1>3 DEF type
  <2>2. QED
    BY <1>2, <2>1, OkKeepsInv
<1>4. CASE store[key].t \in {"string", "list", "set"}
  <2>1. Go("read") /\ kind' = store[key].t /\ buf' = buf /\ touched' = touched
    BY <1>4 DEF type
  <2>2. buf \in Seq(Elements) /\ kind' \in Types \cup {"none"}
    BY <1>4, <2>1, CallFacts DEF Types
  <2>3. store[key] # Missing
    BY <1>4, ValueFacts
  <2>4. key \notin touched => store[key] = orig
    BY <1>2, <2>3 DEF SafeStore, Keeps
  <2>5. call.op = "renamenx" /\ ~raced => store[new] = Missing
    BY <1>1 DEF RenameInv, RaceInv
  <2>6. QED
    BY <1>1, <1>2, <1>4, <2>1, <2>2, <2>4, <2>5, GoKeeps DEF Copying
<1>5. CASE store[key].t \notin {"none", "string", "list", "set"}
  <2>1. Return("throw")
    BY <1>5 DEF type
  <2>2. QED
    BY <1>1, <1>2, <2>1, ThrowKeepsInv
<1>6. QED
  BY <1>3, <1>4, <1>5

LEMMA ReadKeeps == ASSUME RenameInv, read PROVE RenameInv'
<1>1. /\ pc = "read" /\ store' = store /\ pc \in Between /\ pc \in Copying /\ Unfinished
      /\ kind \in {"string", "list", "set"}
  BY DEF read, Between, Copying, Unfinished, RenameInv, ShapeInv
<1>2. SafeStore(store) /\ Typed(store')
  BY <1>1, InvSafeStore DEF SafeStore
<1>3. CASE store[key].t \notin {kind, "none"}
  <2>1. Return("throw")
    BY <1>3 DEF read
  <2>2. QED
    BY <1>1, <1>2, <2>1, ThrowKeepsInv
<1>4. CASE store[key].t \in {kind, "none"}
  <2>1. /\ buf' = IF kind = "string" /\ store[key] = Missing
                  THEN <<"missing_value">> ELSE store[key].c
        /\ kind' = kind /\ touched' = touched
        /\ Go(IF kind = "string" THEN "set" ELSE "clear")
    BY <1>4 DEF read
  <2>2. <<"missing_value">> \in Seq(Elements) /\ <<"missing_value">> # <<>>
    <3>1. "missing_value" \in Elements
      BY RenameAssumption
    <3>2. \A S, e : e \in S => <<e>> \in Seq(S) /\ Len(<<e>>) = 1
      OBVIOUS
    <3>3. <<"missing_value">> \in Seq(Elements) /\ Len(<<"missing_value">>) = 1
      BY <3>1, <3>2, Zenon
    <3>4. QED
      BY <3>3, EmptySeq
  <2>3. buf' \in Seq(Elements) /\ (kind = "string" => buf' # <<>>)
    BY <2>1, <2>2, CallFacts DEF Proper, Values
  <2>4. key \notin touched => store[key] = orig /\ kind = orig.t /\ orig # Missing
    BY <1>1, OldNameKept, ValueFacts DEF RenameInv, CopyInv
  <2>5. key \notin touched => buf' = orig.c
    BY <2>1, <2>4
  <2>6. call.op = "renamenx" /\ ~raced => store[new] = Missing
    BY <1>1 DEF RenameInv, RaceInv
  <2>7. kind \in Types \cup {"none"}
    BY <1>1 DEF Types
  <2>8. CASE kind = "string"
    <3>1. Go("set")
      BY <2>1, <2>8
    <3>2. QED
      BY <1>1, <1>2, <2>1, <2>3, <2>4, <2>5, <2>6, <2>7, <2>8, <3>1, GoKeeps DEF Copying
  <2>9. CASE kind # "string"
    <3>1. Go("clear")
      BY <2>1, <2>9
    <3>2. QED
      BY <1>1, <1>2, <2>1, <2>3, <2>4, <2>5, <2>6, <2>7, <2>9, <3>1, GoKeeps DEF Copying
  <2>10. QED
    BY <2>8, <2>9
<1>5. QED
  BY <1>3, <1>4

LEMMA SetKeeps == ASSUME RenameInv, set PROVE RenameInv'
<1>1. /\ pc = "set" /\ store' = Stored /\ touched' = touched \ {new} /\ Go("remove")
      /\ buf' = buf /\ kind' = kind /\ pc \in Between /\ pc \in Copying /\ Unfinished
  BY DEF set, Between, Copying, Unfinished
<1>2. SafeStore(store) /\ Typed(store')
  BY <1>1, InvSafeStore, StoredSafe DEF SafeStore
<1>3. key # new /\ (key \notin touched => store[key] = orig /\ kind = orig.t)
  BY <1>1, OldNameKept DEF RenameInv, CopyInv
<1>4. key \notin touched => store'[key] = orig /\ store'[new] = orig
  BY <1>1, <1>3, StoredSafe
<1>5. kind = "string" /\ buf \in Seq(Elements) /\ kind \in Types \cup {"none"}
  BY <1>1 DEF RenameInv, ShapeInv, Types
<1>6. QED
  BY <1>1, <1>2, <1>3, <1>4, <1>5, GoKeeps DEF Copying

LEMMA ClearKeeps == ASSUME RenameInv, clear PROVE RenameInv'
<1>1. /\ pc = "clear" /\ store' = Cleared /\ touched' = touched \ {new}
      /\ Go(IF buf = <<>> THEN "remove" ELSE "push")
      /\ buf' = buf /\ kind' = kind /\ pc \in Between /\ pc \in Copying /\ Unfinished
  BY DEF clear, Between, Copying, Unfinished
<1>2. SafeStore(store) /\ Typed(store') /\ store'[new] = Missing
  BY <1>1, InvSafeStore, ClearedSafe DEF SafeStore
<1>3. key # new /\ (key \notin touched => store[key] = orig /\ kind = orig.t /\ buf = orig.c)
  BY <1>1, OldNameKept DEF RenameInv, CopyInv
<1>4. key \notin touched => store'[key] = orig
  BY <1>1, <1>3, ClearedSafe
<1>5. kind \in {"list", "set"} /\ buf \in Seq(Elements) /\ kind \in Types \cup {"none"}
  BY <1>1 DEF RenameInv, ShapeInv, Types
<1>6. <<>> \o buf = buf
  BY <1>5, ConcatEmptySeq
<1>7. CASE buf = <<>>
  <2>1. Go("remove")
    BY <1>1, <1>7
  <2>2. key \notin touched => store'[new] = orig
    BY <1>2, <1>3, <1>7, CallFacts DEF Proper
  <2>3. QED
    BY <1>1, <1>2, <1>3, <1>4, <1>5, <2>1, <2>2, GoKeeps DEF Copying
<1>8. CASE buf # <<>>
  <2>1. Go("push")
    BY <1>1, <1>8
  <2>2. key \notin touched => store'[new].t \in {"none", kind'} /\ store'[new].c \o buf' = orig.c
    BY <1>1, <1>2, <1>3, <1>6, ValueFacts
  <2>3. QED
    BY <1>1, <1>2, <1>3, <1>4, <1>5, <1>8, <2>1, <2>2, GoKeeps DEF Copying
<1>9. QED
  BY <1>7, <1>8

LEMMA PushKeeps == ASSUME RenameInv, push PROVE RenameInv'
<1>1. /\ pc = "push" /\ store' = Pushed /\ pc \in Between /\ pc \in Copying /\ Unfinished
  BY DEF push, Between, Copying, Unfinished
<1>2. SafeStore(store) /\ SafeStore(store') /\ Typed(store')
  BY <1>1, InvSafeStore, PushedSafe DEF SafeStore
<1>3. CASE ~CanPush
  <2>1. Return("throw")
    BY <1>3 DEF push
  <2>2. QED
    BY <1>1, <1>2, <2>1, ThrowKeepsInv
<1>4. CASE CanPush
  <2>1. /\ Go(IF Len(buf) = 1 THEN "remove" ELSE "push")
        /\ buf' = Tail(buf) /\ kind' = kind /\ touched' = touched
    BY <1>4 DEF push
  <2>2. key \notin touched => store'[key] = orig /\ kind = orig.t
    BY <1>1, OldNameKept, PushedSafe DEF RenameInv, CopyInv
  <2>3. kind \in {"list", "set"} /\ kind \in Types \cup {"none"} /\ Tail(buf) \in Seq(Elements)
        /\ (Len(buf) # 1 => Tail(buf) # <<>>)
    BY <1>1, PushedSafe DEF RenameInv, ShapeInv, Types
  <2>4. key \notin touched /\ new \notin touched =>
          /\ store'[new].t = kind /\ store'[new].c \o Tail(buf) = orig.c
          /\ Len(buf) = 1 => store'[new] = orig
    BY <1>1, <1>4, PushedSafe
  <2>5. CASE Len(buf) = 1
    <3>1. Go("remove")
      BY <2>1, <2>5
    <3>2. QED
      BY <1>1, <1>2, <2>1, <2>2, <2>3, <2>4, <2>5, <3>1, GoKeeps DEF Copying
  <2>6. CASE Len(buf) # 1
    <3>1. Go("push")
      BY <2>1, <2>6
    <3>2. QED
      BY <1>1, <1>2, <2>1, <2>2, <2>3, <2>4, <2>6, <3>1, GoKeeps DEF Copying
  <2>7. QED
    BY <2>5, <2>6
<1>5. QED
  BY <1>3, <1>4

LEMMA RemoveKeeps == ASSUME RenameInv, remove PROVE RenameInv'
<1>1. pc = "remove" /\ store' = Removed /\ Return("ok")
  BY DEF remove
<1>2. Typed(store')
  BY <1>1, RemovedSafe DEF SafeStore
<1>3. QED
  BY <1>1, <1>2, OkKeepsInv

LEMMA FailKeeps == ASSUME RenameInv, Fail PROVE RenameInv'
<1>1. pc # "idle" /\ store' \in {store, Effect} /\ Return("throw") /\ Unfinished
  BY DEF Fail, Unfinished
<1>2. SafeStore(store)
  BY <1>1, InvSafeStore
<1>3. SafeStore(Effect)
  BY <1>2, RenamedSafe, StoredSafe, ClearedSafe, PushedSafe, RemovedSafe DEF Effect
<1>4. SafeStore(store')
  <2>1. CASE store' = store
    BY <1>2, <2>1
  <2>2. CASE store' = Effect
    BY <1>3, <2>2
  <2>3. QED
    BY <1>1, <2>1, <2>2
<1>5. QED
  BY <1>1, <1>4, ThrowKeepsInv

LEMMA OtherKeeps == ASSUME RenameInv, NEW k \in Keys, Other(k) PROVE RenameInv'
<1>1. /\ key' = key /\ orig' = orig /\ pc' = pc /\ call' = call /\ kind' = kind /\ buf' = buf
      /\ ret' = ret /\ threw' = threw /\ new' = new /\ writes' = writes + 1
      /\ touched' = (IF Unfinished THEN touched \cup ({k} \cap {key, new}) ELSE {})
      /\ raced' = (raced \/ (pc # "idle" /\ k = new))
  BY DEF Other, new
<1>2. PICK v \in Written(store[k]) : store' = [store EXCEPT ![k] = v]
  BY DEF Other
<1>3. Proper(v)
  <2>1. CASE v \in {Missing, Foreign}
    BY <2>1, ValueFacts
  <2>2. ASSUME NEW t \in {"list", "set"}, store[k].t \in {"none", t},
               v = Extended(store[k], t, "foreign")
        PROVE  Proper(v)
    BY <2>2, CallFacts, ExtendedProper, RenameAssumption DEF Typed
  <2>3. QED
    BY <1>2, <2>1, <2>2 DEF Written
<1>4. Typed(store') /\ store'[k] = v /\ \A j \in Keys \ {k} : store'[j] = store[j]
  BY <1>2, <1>3, CallFacts, TypedExcept
<1>5. TypeOK'
  <2>1. \A j \in Keys : /\ store'[j].t \in Types \cup {"none"}
                        /\ store'[j].c = <<>> <=> store'[j] = Missing
                        /\ Distinct(store'[j])
    BY <1>4 DEF Typed, Proper, Values
  <2>2. touched' \subseteq Keys /\ writes' \in Nat /\ raced' \in BOOLEAN
    <3>1. touched \subseteq Keys /\ writes \in Nat
      BY DEF RenameInv, ShapeInv, TypeOK
    <3>2. raced' \in BOOLEAN
      BY <1>1
    <3>3. QED
      BY <1>1, <3>1, <3>2
  <2>3. QED
    BY <1>1, <2>1, <2>2 DEF RenameInv, ShapeInv, TypeOK
<1>6. ShapeInv'
  BY <1>1, <1>4, <1>5 DEF RenameInv, ShapeInv
<1>7. ServersInv'
  BY <1>1 DEF RenameInv, ServersInv
<1>8. Unfinished' = Unfinished
  BY <1>1 DEF Unfinished
<1>9. ASSUME Unfinished, key \notin touched'
      PROVE  /\ key \notin touched /\ store'[key] = store[key]
             /\ new \notin touched' => new \notin touched /\ store'[new] = store[new]
  BY <1>1, <1>4, <1>9, CallFacts
<1>10. KeyInv'
  BY <1>1, <1>8, <1>9 DEF RenameInv, KeyInv, Keeps
<1>11. CopyInv'
  <2>1. CASE ~Unfinished
    BY <1>1, <2>1 DEF CopyInv, Copying, Unfinished
  <2>2. CASE Unfinished
    BY <1>1, <1>9, <2>2 DEF RenameInv, CopyInv
  <2>3. QED
    BY <2>1, <2>2
<1>12. RaceInv'
  <2> SUFFICES ASSUME call.op = "renamenx", pc \in {"type", "read", "set", "clear"}, ~raced'
               PROVE  store'[new] = Missing
    BY <1>1 DEF RaceInv
  <2>1. k # new /\ ~raced
    BY <1>1
  <2>2. QED
    BY <1>4, <2>1, CallFacts DEF RenameInv, RaceInv
<1>13. QED
  BY <1>6, <1>7, <1>10, <1>11, <1>12 DEF RenameInv

LEMMA NextRenameInv == RenameInv /\ [Next]_vars => RenameInv'
<1> SUFFICES ASSUME RenameInv, [Next]_vars PROVE RenameInv'
  OBVIOUS
<1>1. CASE UNCHANGED vars
  BY <1>1 DEF vars, RenameInv, ShapeInv, TypeOK, ServersInv, KeyInv, CopyInv, RaceInv, Keeps,
              Unfinished, new
<1>2. ASSUME NEW op \in {"rename", "renamenx"}, NEW n \in Keys, Begin(op, n) PROVE RenameInv'
  BY <1>2, BeginKeeps
<1>3. CASE AtOnce
  BY <1>3, AtOnceKeeps
<1>4. CASE exists
  BY <1>4, ExistsKeeps
<1>5. CASE type
  BY <1>5, TypeKeeps
<1>6. CASE read
  BY <1>6, ReadKeeps
<1>7. CASE set
  BY <1>7, SetKeeps
<1>8. CASE clear
  BY <1>8, ClearKeeps
<1>9. CASE push
  BY <1>9, PushKeeps
<1>10. CASE remove
  BY <1>10, RemoveKeeps
<1>11. CASE Fail
  BY <1>11, FailKeeps
<1>12. ASSUME NEW k \in Keys, Other(k) PROVE RenameInv'
  BY <1>12, OtherKeeps
<1>13. QED
  BY <1>1, <1>2, <1>3, <1>4, <1>5, <1>6, <1>7, <1>8, <1>9, <1>10, <1>11, <1>12 DEF Next

LEMMA InitRenameInv == Init => RenameInv
<1> SUFFICES ASSUME Init PROVE RenameInv
  OBVIOUS
<1>1. /\ key \in Keys /\ pc = "idle" /\ call = [op |-> "rename", new |-> key] /\ buf = <<>>
      /\ kind = "none" /\ ret = "ok" /\ threw = FALSE /\ orig = Missing /\ touched = {}
      /\ raced = FALSE /\ writes = 0
  BY DEF Init
<1>2. PICK v \in Contents, others \in SUBSET (Keys \ {key}) :
        store = [k \in Keys |-> IF k = key THEN v
                                ELSE IF k \in others THEN Foreign ELSE Missing]
  BY DEF Init
<1>3. Proper(v) /\ Proper(Foreign) /\ Proper(Missing)
  BY ContentsProper, ValueFacts
<1>4. \A k \in Keys : Proper(store[k])
  BY <1>2, <1>3
<1>5. Typed(store)
  BY <1>2, <1>4 DEF Typed, Proper
<1>6. TypeOK
  <2>1. \A k \in Keys : /\ store[k].t \in Types \cup {"none"}
                        /\ store[k].c = <<>> <=> store[k] = Missing
                        /\ Distinct(store[k])
    BY <1>4 DEF Proper, Values
  <2>2. call \in [op : {"rename", "renamenx"}, new : Keys] /\ 0 \in Nat
    BY <1>1
  <2>3. QED
    BY <1>1, <2>1, <2>2 DEF TypeOK
<1>7. <<>> \in Seq(Elements)
  BY EmptySeq
<1>8. ShapeInv
  BY <1>1, <1>3, <1>5, <1>6, <1>7 DEF ShapeInv, Copying
<1>9. QED
  BY <1>1, <1>8 DEF RenameInv, ServersInv, KeyInv, CopyInv, RaceInv, Unfinished, Between, Copying

LEMMA RenameInvariant == Spec => []RenameInv
BY InitRenameInv, NextRenameInv, PTL DEF Spec

(* rename() and renamenx() never lose the value, wherever commands or answers are *)
(* lost and however often the call is repeated, unless another client writes under *)
(* the handle's name or, once the copy is begun, under the new one.               *)
THEOREM ValueIsNeverLost == Spec => []NeverLost
<1>1. RenameInv => NeverLost
  <2> SUFFICES ASSUME RenameInv, Unfinished, key \notin touched
               PROVE  store[key] = orig \/ new \in touched \/ store[new] = orig
    BY DEF NeverLost, RenameInv, ShapeInv
  <2>1. QED
    BY InvSafeStore DEF SafeStore, Keeps
<1>2. QED
  BY <1>1, RenameInvariant, PTL

(* The steps that end a call.                                                     *)
LEMMA Ends ==
  ASSUME RenameInv, Next, pc # "idle", pc' = "idle"
  PROVE  AtOnce \/ exists \/ type \/ read \/ push \/ remove \/ Fail
<1>1. ASSUME NEW op \in {"rename", "renamenx"}, NEW n \in Keys, Begin(op, n) PROVE FALSE
  BY <1>1 DEF Begin
<1>2. ASSUME NEW k \in Keys, Other(k) PROVE FALSE
  BY <1>2 DEF Other
<1>3. ~set
  BY DEF set, Go
<1>4. ~clear
  BY DEF clear, Go
<1>5. QED
  BY <1>1, <1>2, <1>3, <1>4 DEF Next

(* A renamenx() that returns false before any exception has left the value alone.  *)
THEOREM RefusalsAreIntact == Spec => RefusedIntact
<1>1. RenameInv /\ [Next]_vars =>
        [pc # "idle" /\ pc' = "idle" /\ ret' = "false" /\ ~threw /\ key \notin touched =>
           store'[key] = orig]_vars
  <2> SUFFICES ASSUME RenameInv, Next, pc # "idle", pc' = "idle", ret' = "false", ~threw,
                      key \notin touched
               PROVE  store'[key] = orig
    OBVIOUS
  <2>1. store[key] = orig
    BY DEF RenameInv, KeyInv, Unfinished
  <2>2. store' = store
    <3>1. CASE AtOnce
      <4>1. call.op = "renamenx" /\ store[new] # Missing /\ pc = "at_once" /\ store' = Renamed
        BY <3>1 DEF AtOnce, Return
      <4>2. QED
        BY <4>1, RenamedSafe
    <3>2. CASE exists \/ type \/ read
      BY <3>2 DEF exists, type, read
    <3>3. ~push /\ ~remove /\ ~Fail
      BY DEF push, remove, Fail, Return, Go
    <3>4. QED
      BY <3>1, <3>2, <3>3, Ends
  <2>3. QED
    BY <2>1, <2>2
<1>2. QED
  BY <1>1, RenameInvariant, PTL DEF Spec, RefusedIntact

(* A rename that returns has moved all of the value and left nothing under the old  *)
(* name, but for the writes of other clients.                                      *)
THEOREM RenamesAreComplete == Spec => Moved
<1>1. RenameInv /\ [Next]_vars =>
        [pc # "idle" /\ pc' = "idle" /\ ret' = "ok" /\ orig # Missing =>
           \/ key \in touched
           \/ Home[key] # Home[new] /\ new \in touched
           \/ store'[new] = orig /\ (key # new => store'[key] = Missing)]_vars
  <2> SUFFICES ASSUME RenameInv, Next, pc # "idle", pc' = "idle", ret' = "ok", orig # Missing,
                      key \notin touched, ~(Home[key] # Home[new] /\ new \in touched)
               PROVE  store'[new] = orig /\ (key # new => store'[key] = Missing)
    OBVIOUS
  <2>1. SafeStore(store)
    BY InvSafeStore DEF Unfinished
  <2>2. CASE AtOnce
    <3>1. /\ store[key] # Missing /\ ~(call.op = "renamenx" /\ store[new] # Missing)
          /\ pc = "at_once" /\ store' = Renamed
      BY <2>2 DEF AtOnce, Return
    <3>2. QED
      BY <3>1, RenamedSafe
  <2>3. CASE type
    <3>1. pc = "type" /\ store' = store /\ store[key].t = "none"
      BY <2>3 DEF type, Return, Go
    <3>2. store[key] = Missing
      BY <3>1, CallFacts DEF Proper
    <3>3. new \notin touched
      BY <3>1 DEF RenameInv, ServersInv, Between
    <3>4. store[new] = orig
      BY <2>1, <3>2, <3>3 DEF SafeStore, Keeps
    <3>5. QED
      BY <3>1, <3>2, <3>4
  <2>4. CASE remove
    <3>1. pc = "remove" /\ store' = Removed
      BY <2>4 DEF remove
    <3>2. new \notin touched
      BY <3>1 DEF RenameInv, ServersInv, Between
    <3>3. QED
      BY <3>1, <3>2, RemovedSafe
  <2>5. ~exists /\ ~read /\ ~push /\ ~Fail
    BY DEF exists, read, push, Fail, Return, Go
  <2>6. QED
    BY <2>2, <2>3, <2>4, <2>5, Ends
<1>2. QED
  BY <1>1, RenameInvariant, PTL DEF Spec, Moved

(* renamenx() takes away another client's data only if that client wrote under the  *)
(* new name while the call was running.                                            *)
THEOREM NxRacesOnly == Spec => NxReplacesOnlyRaced
<1>1. RenameInv /\ [Next]_vars =>
        [OwnStep => \A k \in Keys \ {key} :
           In("foreign", store[k].c) /\ ~In("foreign", store'[k].c) =>
             call.op = "rename" \/ raced]_vars
  <2> SUFFICES ASSUME RenameInv, Next, OwnStep, NEW k \in Keys \ {key}, call.op # "rename", ~raced,
                      In("foreign", store[k].c)
               PROVE  In("foreign", store'[k].c)
    OBVIOUS
  <2>0. call.op = "renamenx" /\ store[k] # Missing
    <3>1. ~In("foreign", <<>>)
      BY DEF In
    <3>2. QED
      BY <3>1, ValueFacts DEF RenameInv, ShapeInv, TypeOK
  <2>1. pc = "at_once" => Renamed[k] = store[k]
    BY <2>0, RenamedSafe
  <2>2. pc \in {"set", "clear"} => k # new
    BY <2>0 DEF RenameInv, RaceInv
  <2>3. pc = "set" => Stored[k] = store[k]
    BY <2>2, StoredSafe
  <2>4. pc = "clear" => Cleared[k] = store[k]
    BY <2>2, ClearedSafe
  <2>5. pc = "push" => In("foreign", Pushed[k].c)
    <3>1. CASE k = new
      BY <3>1, PushedSafe
    <3>2. CASE k # new
      BY <3>2, PushedSafe
    <3>3. QED
      BY <3>1, <3>2
  <2>6. pc = "remove" => Removed[k] = store[k]
    BY RemovedSafe
  <2>7. CASE AtOnce \/ set \/ clear \/ push \/ remove
    BY <2>1, <2>3, <2>4, <2>5, <2>6, <2>7 DEF AtOnce, set, clear, push, remove
  <2>8. CASE Fail
    BY <2>1, <2>3, <2>4, <2>5, <2>6, <2>8 DEF Fail, Effect
  <2>9. ASSUME NEW j \in Keys, Other(j) PROVE FALSE
    BY <2>9 DEF Other, OwnStep
  <2>10. CASE \/ \E op \in {"rename", "renamenx"}, n \in Keys : Begin(op, n)
              \/ exists \/ type \/ read
    BY <2>10 DEF Begin, exists, type, read
  <2>11. QED
    BY <2>7, <2>8, <2>9, <2>10 DEF Next
<1>2. QED
  BY <1>1, RenameInvariant, PTL DEF Spec, NxReplacesOnlyRaced
-----------------------------------------------------------------------------
(* sinterstore() and sunionstore(): the members of their sets, and the state   *)
(* their model keeps.                                                          *)
CONSTANT Elems
VARIABLES sets, spc, scall, asked, content, size, sret, want, sthrew

Store == INSTANCE RedisSetStore WITH pc <- spc, call <- scall, ret <- sret, threw <- sthrew

(* The calls of which something is claimed.                                   *)
Sure == sthrew => scall.dst \notin scall.keys

(* The keys whose server has answered.                                        *)
Answered == {k \in scall.keys : Home[k] \notin asked}

(* What the gathering has reached.                                            *)
GatherInv ==
  /\ spc = "gather" =>
       content = IF asked = Store!Sockets(scall.keys) THEN {} ELSE Store!Combine(scall.op, Answered)
  /\ spc = "clear" => content = Store!Combine(scall.op, scall.keys)

(* What the sets still say: before the destination is deleted, and in every    *)
(* call and between its tries when the destination is not one of the sets.     *)
SourceInv ==
  /\ spc \in {"at_once", "gather", "clear"} /\ Sure => Store!Combine(scall.op, scall.keys) = want
  /\ (spc # "idle" \/ sret = "throw") /\ scall.dst \notin scall.keys =>
       Store!Combine(scall.op, scall.keys) = want

(* While members are added, those in the set and those to come make the result. *)
AddInv ==
  spc = "add" /\ Sure => sets[scall.dst] \cup content = want /\ size = Store!Cardinality(want)

StoreInv == Store!TypeOK /\ GatherInv /\ SourceInv /\ AddInv /\ Store!StoresRight

LEMMA InitStoreInv == ASSUME Keys # {} PROVE Store!Init => StoreInv
<1> SUFFICES ASSUME Keys # {}, Store!Init PROVE StoreInv
  OBVIOUS
<1>1. (CHOOSE k \in Keys : TRUE) \in Keys
  OBVIOUS
<1>2. Store!TypeOK
  BY <1>1 DEF Store!Init, Store!TypeOK, Store!Ops, Store!Sockets
<1>3. GatherInv /\ SourceInv /\ AddInv /\ Store!StoresRight
  BY DEF Store!Init, GatherInv, SourceInv, AddInv, Store!StoresRight
<1>4. QED
  BY <1>2, <1>3 DEF StoreInv

(* The members gathered stay right when one more server answers.               *)
LEMMA GatherStep ==
  ASSUME StoreInv, NEW s \in asked, Store!Gather(s)
  PROVE  /\ content' = Store!Combine(scall.op, {k \in scall.keys : Home[k] \notin asked'})
         /\ asked' # Store!Sockets(scall.keys)
<1> DEFINE cur == Store!Combine(scall.op, {k \in scall.keys : Home[k] = s})
           more == {k \in scall.keys : Home[k] \notin asked'}
<1>1. asked' = asked \ {s} /\ s \in Store!Sockets(scall.keys)
  BY DEF Store!Gather, StoreInv, Store!TypeOK
<1>2. asked' # Store!Sockets(scall.keys)
  BY <1>1
<1>3. \A k \in scall.keys : k \in more <=> (k \in Answered \/ Home[k] = s)
  BY <1>1 DEF Answered
<1>4. CASE scall.op = "sunionstore"
  <2>1. content' = content \cup cur
    BY <1>4 DEF Store!Gather
  <2>2. content = Store!Combine(scall.op, Answered)
    <3>1. CASE asked = Store!Sockets(scall.keys)
      <4>1. \A k \in scall.keys : k \notin Answered
        BY <3>1 DEF Answered, Store!Sockets
      <4>2. content = {}
        BY <3>1 DEF StoreInv, GatherInv, Store!Gather
      <4>3. QED
        BY <1>4, <4>1, <4>2 DEF Store!Combine, Answered
    <3>2. CASE asked # Store!Sockets(scall.keys)
      BY <3>2 DEF StoreInv, GatherInv, Store!Gather
    <3>3. QED
      BY <3>1, <3>2
  <2>3. \A e \in Elems : e \in Store!Combine(scall.op, more) <=> (e \in content \/ e \in cur)
    BY <1>3, <1>4, <2>2 DEF Store!Combine, Answered
  <2>4. content \subseteq Elems /\ cur \subseteq Elems /\ Store!Combine(scall.op, more) \subseteq Elems
    BY <2>2 DEF Store!Combine
  <2>5. QED
    BY <1>2, <2>1, <2>3, <2>4
<1>5. CASE scall.op = "sinterstore"
  <2>1. CASE asked = Store!Sockets(scall.keys)
    <3>1. content' = cur
      BY <1>5, <2>1 DEF Store!Gather
    <3>2. \A k \in scall.keys : k \notin Answered
      BY <2>1 DEF Answered, Store!Sockets
    <3>3. \A k \in scall.keys : k \in more <=> Home[k] = s
      BY <1>3, <3>2
    <3>4. more = {k \in scall.keys : Home[k] = s}
      BY <3>3
    <3>5. QED
      BY <1>2, <3>1, <3>4
  <2>2. CASE asked # Store!Sockets(scall.keys)
    <3>1. content' = content \cap cur
      BY <1>5, <2>2 DEF Store!Gather
    <3>2. content = Store!Combine(scall.op, Answered)
      BY <2>2 DEF StoreInv, GatherInv, Store!Gather
    <3>3. \A e \in Elems : e \in Store!Combine(scall.op, more) <=> (e \in content /\ e \in cur)
      BY <1>3, <1>5, <3>2 DEF Store!Combine, Answered
    <3>4. content \subseteq Elems /\ cur \subseteq Elems /\ Store!Combine(scall.op, more) \subseteq Elems
      BY <3>2 DEF Store!Combine
    <3>5. QED
      BY <1>2, <3>1, <3>3, <3>4
  <2>3. QED
    BY <2>1, <2>2
<1>6. QED
  BY <1>4, <1>5 DEF StoreInv, Store!TypeOK, Store!Ops

(* Combine does not look at the destination unless it is one of the keys.       *)
LEMMA CombineKept ==
  ASSUME Store!TypeOK, NEW v, sets' = [sets EXCEPT ![scall.dst] = v], scall' = scall,
         scall.dst \notin scall.keys
  PROVE  Store!Combine(scall.op, scall.keys)' = Store!Combine(scall.op, scall.keys)
<1>1. \A k \in scall.keys : sets'[k] = sets[k]
  BY DEF Store!TypeOK
<1>2. QED
  BY <1>1 DEF Store!Combine

LEMMA NextStoreInv == StoreInv /\ [Store!Next]_Store!vars => StoreInv'
<1> SUFFICES ASSUME StoreInv, [Store!Next]_Store!vars PROVE StoreInv'
  OBVIOUS
<1> USE DEF StoreInv
<1>1. ASSUME NEW op \in Store!Ops, NEW dst \in Keys, NEW ks \in SUBSET Keys, Store!Begin(op, dst, ks)
      PROVE  StoreInv'
  <2>1. Store!TypeOK'
    <3>1. sthrew' \in BOOLEAN
      BY <1>1 DEF Store!Begin
    <3>2. want' \subseteq Elems
      BY <1>1 DEF Store!Begin, Store!TypeOK, Store!Combine
    <3>3. asked' \subseteq Store!Sockets(scall.keys)' /\ (spc' = "gather" => asked' # {})
      BY <1>1 DEF Store!Begin, Store!Sockets
    <3>4. QED
      BY <1>1, <3>1, <3>2, <3>3 DEF Store!Begin, Store!TypeOK
  <2>2. GatherInv'
    BY <1>1 DEF Store!Begin, GatherInv, Store!Sockets
  <2>3. Sure' => Store!Combine(scall.op, scall.keys)' = want'
    <3>1. CASE sret = "throw"
      BY <1>1, <3>1 DEF Store!Begin, Sure, SourceInv, Store!Combine
    <3>2. CASE sret # "throw"
      BY <1>1, <3>2 DEF Store!Begin, Store!Combine
    <3>3. QED
      BY <3>1, <3>2
  <2>4. SourceInv'
    BY <2>3 DEF SourceInv, Sure
  <2>5. AddInv' /\ Store!StoresRight'
    BY <1>1 DEF Store!Begin, AddInv, Store!StoresRight
  <2>6. QED
    BY <2>1, <2>2, <2>4, <2>5
<1>2. CASE Store!AtOnce
  <2>1. /\ spc' = "idle" /\ sret' = "ok" /\ scall' = scall /\ want' = want /\ sthrew' = sthrew
        /\ asked' = asked /\ content' = content
        /\ sets' = [sets EXCEPT ![scall.dst] = Store!Combine(scall.op, scall.keys)]
        /\ size' = Store!Cardinality(sets'[scall.dst]) /\ spc = "at_once"
    BY <1>2 DEF Store!AtOnce, Store!Return, Store!Stored
  <2>2. Store!Combine(scall.op, scall.keys) \subseteq Elems
    BY DEF Store!Combine
  <2>3. sets' \in [Keys -> SUBSET Elems] /\ sets'[scall.dst] = Store!Combine(scall.op, scall.keys)
    BY <2>1, <2>2 DEF Store!TypeOK
  <2>4. Store!TypeOK'
    BY <2>1, <2>3 DEF Store!TypeOK, Store!Sockets
  <2>5. Store!StoresRight'
    BY <2>1, <2>3 DEF Store!StoresRight, SourceInv, Sure
  <2>6. QED
    BY <2>1, <2>4, <2>5 DEF GatherInv, SourceInv, AddInv
<1>3. ASSUME NEW s \in asked, Store!Gather(s) PROVE StoreInv'
  <2>1. /\ sets' = sets /\ scall' = scall /\ want' = want /\ sthrew' = sthrew /\ sret' = sret
        /\ asked' = asked \ {s} /\ spc' \in {"clear", "gather"} /\ spc = "gather"
        /\ (spc' = "gather" <=> asked' # {})
    BY <1>3 DEF Store!Gather
  <2>2. /\ content' = Store!Combine(scall.op, {k \in scall.keys : Home[k] \notin asked'})
        /\ asked' # Store!Sockets(scall.keys)
    BY <1>3, GatherStep
  <2>3. Store!TypeOK'
    BY <2>1, <2>2 DEF Store!TypeOK, Store!Combine, Store!Sockets
  <2>4. GatherInv'
    <3>1. CASE spc' = "gather"
      BY <2>1, <2>2, <3>1 DEF GatherInv, Answered, Store!Combine, Store!Sockets
    <3>2. CASE spc' = "clear"
      <4>1. asked' = {}
        BY <2>1, <3>2
      <4>2. {k \in scall.keys : Home[k] \notin asked'} = scall.keys
        BY <4>1
      <4>3. QED
        BY <2>1, <2>2, <3>2, <4>2 DEF GatherInv, Store!Combine
    <3>3. QED
      BY <2>1, <3>1, <3>2
  <2>5. Store!Combine(scall.op, scall.keys)' = Store!Combine(scall.op, scall.keys)
    BY <2>1 DEF Store!Combine
  <2>6. SourceInv'
    BY <2>1, <2>5 DEF SourceInv, Sure
  <2>7. QED
    BY <2>1, <2>3, <2>4, <2>6 DEF AddInv, Store!StoresRight
<1>4. CASE Store!Clear
  <2>1. /\ sets' = [sets EXCEPT ![scall.dst] = {}] /\ size' = Store!Cardinality(content)
        /\ scall' = scall /\ want' = want /\ sthrew' = sthrew
        /\ asked' = asked /\ content' = content /\ spc = "clear"
        /\ \/ content = {} /\ spc' = "idle" /\ sret' = "ok"
           \/ content # {} /\ spc' = "add" /\ sret' = sret
    BY <1>4 DEF Store!Clear, Store!Cleared, Store!Return
  <2>2. sets' \in [Keys -> SUBSET Elems] /\ sets'[scall.dst] = {}
    BY <2>1 DEF Store!TypeOK
  <2>3. Store!TypeOK'
    BY <2>1, <2>2 DEF Store!TypeOK, Store!Sockets
  <2>4. SourceInv'
    BY <2>1, CombineKept DEF SourceInv, Sure
  <2>5. Sure => content = want
    BY <2>1 DEF GatherInv, SourceInv
  <2>6. AddInv' /\ Store!StoresRight'
    BY <2>1, <2>2, <2>5 DEF AddInv, Store!StoresRight, Sure
  <2>7. QED
    BY <2>1, <2>3, <2>4, <2>6 DEF GatherInv
<1>5. ASSUME NEW e \in Elems, Store!Add(e) PROVE StoreInv'
  <2>1. /\ sets' = [sets EXCEPT ![scall.dst] = sets[scall.dst] \cup {e}] /\ size' = size
        /\ scall' = scall /\ want' = want /\ sthrew' = sthrew
        /\ asked' = asked /\ content' = content \ {e} /\ e \in content /\ spc = "add"
        /\ \/ content' = {} /\ spc' = "idle" /\ sret' = "ok"
           \/ content' # {} /\ spc' = "add" /\ sret' = sret
    BY <1>5 DEF Store!Add, Store!Added, Store!Return
  <2>2. sets' \in [Keys -> SUBSET Elems] /\ sets'[scall.dst] = sets[scall.dst] \cup {e}
    BY <1>5, <2>1 DEF Store!TypeOK
  <2>3. Store!TypeOK'
    BY <2>1, <2>2 DEF Store!TypeOK, Store!Sockets
  <2>4. SourceInv'
    BY <2>1, CombineKept DEF SourceInv, Sure
  <2>5. sets'[scall.dst] \cup content' = sets[scall.dst] \cup content
    BY <2>1, <2>2
  <2>6. AddInv' /\ Store!StoresRight'
    BY <2>1, <2>5 DEF AddInv, Store!StoresRight, Sure
  <2>7. QED
    BY <2>1, <2>3, <2>4, <2>6 DEF GatherInv
<1>6. CASE Store!Fail
  <2>1. /\ spc # "idle" /\ spc' = "idle" /\ sret' = "throw" /\ scall' = scall /\ want' = want
        /\ sthrew' = sthrew /\ asked' = asked /\ content' = content
    BY <1>6 DEF Store!Fail, Store!Return
  <2>2. PICK v \in SUBSET Elems : sets' = [sets EXCEPT ![scall.dst] = v]
    <3>1. CASE sets' = sets
      BY <3>1 DEF Store!TypeOK
    <3>2. CASE sets' = Store!Stored
      BY <3>2 DEF Store!Stored, Store!Combine
    <3>3. CASE sets' = Store!Cleared
      BY <3>3 DEF Store!Cleared
    <3>4. ASSUME NEW e \in content, sets' = Store!Added(e)
          PROVE  \E v \in SUBSET Elems : sets' = [sets EXCEPT ![scall.dst] = v]
      BY <3>4 DEF Store!Added, Store!TypeOK
    <3>5. QED
      BY <1>6, <3>1, <3>2, <3>3, <3>4 DEF Store!Fail
  <2>3. Store!TypeOK'
    BY <2>1, <2>2 DEF Store!TypeOK, Store!Sockets
  <2>4. SourceInv'
    BY <2>1, <2>2, CombineKept DEF SourceInv
  <2>5. QED
    BY <2>1, <2>3, <2>4 DEF GatherInv, AddInv, Store!StoresRight
<1>7. CASE UNCHANGED Store!vars
  BY <1>7 DEF Store!vars, Store!TypeOK, GatherInv, SourceInv, AddInv, Store!StoresRight, Sure, Answered,
              Store!Combine, Store!Sockets
<1>8. QED
  BY <1>1, <1>2, <1>3, <1>4, <1>5, <1>6, <1>7 DEF Store!Next

(* A call that returns has stored the combination of the sets as they were when  *)
(* it was first made, and returns its size, wherever keys and destination live   *)
(* and whatever failed before; a cut-off try spoils the result only if the        *)
(* destination is one of the sets.                                                *)
THEOREM StoresRightEver == ASSUME Keys # {} PROVE Store!Spec => []Store!StoresRight
<1>1. Store!Init => StoreInv
  BY InitStoreInv
<1>2. StoreInv => Store!StoresRight
  BY DEF StoreInv
<1>3. QED
  BY <1>1, <1>2, NextStoreInv, PTL DEF Store!Spec

-----------------------------------------------------------------------------
(* smove(): the clients and members of its model, and the state it keeps      *)
(* besides the sets.                                                          *)
CONSTANTS Clients, Members
VARIABLES mpc, marg, mret, lost

SMove == INSTANCE RedisSMove WITH pc <- mpc, arg <- marg, ret <- mret

\* Every client's call names known keys and members, whatever cuts it off.
THEOREM SMoveTypeCorrect == SMove!Spec => []SMove!TypeOK
<1>1. SMove!Init => SMove!TypeOK
  BY DEF SMove!Init, SMove!TypeOK
<1>2. SMove!TypeOK /\ [SMove!Next]_SMove!vars => SMove!TypeOK'
  <2> SUFFICES ASSUME SMove!TypeOK, [SMove!Next]_SMove!vars PROVE SMove!TypeOK'
    OBVIOUS
  <2>1. CASE UNCHANGED SMove!vars
    BY <2>1 DEF SMove!vars, SMove!TypeOK
  <2>2. ASSUME NEW c \in Clients, NEW a \in [src : Keys, dst : Keys, member : Members],
               SMove!smove(c, a)
        PROVE  SMove!TypeOK'
    BY <2>2 DEF SMove!smove, SMove!TypeOK
  <2>3. ASSUME NEW c \in Clients, SMove!MoveAtOnce(c)
        PROVE  SMove!TypeOK'
    BY <2>3 DEF SMove!MoveAtOnce, SMove!Moved, SMove!Return, SMove!TypeOK
  <2>4. ASSUME NEW c \in Clients, SMove!Remove(c)
        PROVE  SMove!TypeOK'
    BY <2>4 DEF SMove!Remove, SMove!Removed, SMove!Return, SMove!TypeOK
  <2>5. ASSUME NEW c \in Clients, SMove!Add(c)
        PROVE  SMove!TypeOK'
    BY <2>5 DEF SMove!Add, SMove!Added, SMove!Return, SMove!TypeOK
  <2>6. ASSUME NEW c \in Clients, SMove!Cut(c)
        PROVE  SMove!TypeOK'
    BY <2>6 DEF SMove!Cut, SMove!Return, SMove!TypeOK
  <2>7. ASSUME NEW c \in Clients, SMove!ReplyLost(c)
        PROVE  SMove!TypeOK'
    <3>1. marg[c] \in [src : Keys, dst : Keys, member : Members]
      BY DEF SMove!TypeOK
    <3>2. sets' \in [Keys -> SUBSET Members]
      BY <2>7, <3>1 DEF SMove!ReplyLost, SMove!Moved, SMove!Removed, SMove!Added, SMove!TypeOK
    <3>3. lost' \subseteq Members
      BY <2>7, <3>1 DEF SMove!ReplyLost, SMove!TypeOK
    <3> QED
      BY <2>7, <3>2, <3>3 DEF SMove!ReplyLost, SMove!Return, SMove!TypeOK
  <2> QED
    BY <2>1, <2>2, <2>3, <2>4, <2>5, <2>6, <2>7 DEF SMove!Next
<1> QED
  BY <1>1, <1>2, PTL DEF SMove!Spec

\* The member a cross-server srem() takes out is carried by that client alone, so
\* the sadd() of a call that was not cut off cannot make a second copy.
THEOREM NoCopiesEver == SMove!Spec => []SMove!NoCopies
<1>1. SMove!Init => SMove!NoCopies
  BY DEF SMove!Init, SMove!NoCopies, SMove!Carries
<1>2. SMove!TypeOK /\ SMove!NoCopies /\ [SMove!Next]_SMove!vars => SMove!NoCopies'
  <2> SUFFICES ASSUME SMove!TypeOK, SMove!NoCopies, [SMove!Next]_SMove!vars PROVE SMove!NoCopies'
    OBVIOUS
  <2>1. CASE UNCHANGED SMove!vars
    BY <2>1 DEF SMove!vars, SMove!NoCopies, SMove!Carries
  <2>2. ASSUME NEW c \in Clients, NEW a \in [src : Keys, dst : Keys, member : Members],
               SMove!smove(c, a)
        PROVE  SMove!NoCopies'
    BY <2>2 DEF SMove!smove, SMove!TypeOK, SMove!NoCopies, SMove!Carries
  <2>3. ASSUME NEW c \in Clients, SMove!MoveAtOnce(c)
        PROVE  SMove!NoCopies'
    BY <2>3 DEF SMove!MoveAtOnce, SMove!Moved, SMove!Return, SMove!TypeOK, SMove!NoCopies, SMove!Carries
  <2>4. ASSUME NEW c \in Clients, SMove!Remove(c)
        PROVE  SMove!NoCopies'
    BY <2>4 DEF SMove!Remove, SMove!Removed, SMove!Return, SMove!TypeOK, SMove!NoCopies, SMove!Carries
  <2>5. ASSUME NEW c \in Clients, SMove!Add(c)
        PROVE  SMove!NoCopies'
    BY <2>5 DEF SMove!Add, SMove!Added, SMove!Return, SMove!TypeOK, SMove!NoCopies, SMove!Carries
  <2>6. ASSUME NEW c \in Clients, SMove!Cut(c)
        PROVE  SMove!NoCopies'
    BY <2>6 DEF SMove!Cut, SMove!Return, SMove!TypeOK, SMove!NoCopies, SMove!Carries
  <2>7. ASSUME NEW c \in Clients, SMove!ReplyLost(c)
        PROVE  SMove!NoCopies'
    <3>0. mpc' = [mpc EXCEPT ![c] = "idle"] /\ marg' = marg
      BY <2>7 DEF SMove!ReplyLost, SMove!Return
    <3>1. CASE mpc[c] = "add"
      <4>1. sets' = [sets EXCEPT ![marg[c].dst] = @ \cup {marg[c].member}]
        BY <2>7, <3>1 DEF SMove!ReplyLost, SMove!Added
      <4> QED
        BY <3>0, <3>1, <4>1 DEF SMove!TypeOK, SMove!NoCopies, SMove!Carries
    <3>2. CASE mpc[c] = "remove" /\ SMove!SameServer(marg[c])
      <4>1. sets' = SMove!Moved(marg[c])
        BY <2>7, <3>2 DEF SMove!ReplyLost
      <4> QED
        BY <3>0, <3>2, <4>1 DEF SMove!Moved, SMove!TypeOK, SMove!NoCopies, SMove!Carries
    <3>3. CASE mpc[c] = "remove" /\ ~SMove!SameServer(marg[c])
      <4>1. sets' = [sets EXCEPT ![marg[c].src] = @ \ {marg[c].member}]
        BY <2>7, <3>3 DEF SMove!ReplyLost, SMove!Removed
      <4> QED
        BY <3>0, <3>3, <4>1 DEF SMove!TypeOK, SMove!NoCopies, SMove!Carries
    <3> QED
      BY <2>7, <3>1, <3>2, <3>3 DEF SMove!ReplyLost
  <2> QED
    BY <2>1, <2>2, <2>3, <2>4, <2>5, <2>6, <2>7 DEF SMove!Next
<1> QED
  BY <1>1, <1>2, SMoveTypeCorrect, PTL DEF SMove!Spec

\* A member missing from every set is in the hands of a client or was lost by a call
\* that was cut off after its srem(): the calls' interleaving alone loses nothing.
THEOREM OnlyAbortLosesEver == SMove!Spec => []SMove!OnlyAbortLoses
<1>1. SMove!Init => SMove!OnlyAbortLoses
  BY DEF SMove!Init, SMove!OnlyAbortLoses
<1>2. SMove!TypeOK /\ SMove!OnlyAbortLoses /\ [SMove!Next]_SMove!vars => SMove!OnlyAbortLoses'
  <2> SUFFICES ASSUME SMove!TypeOK, SMove!OnlyAbortLoses, [SMove!Next]_SMove!vars, NEW m \in Members
               PROVE  (\/ \E k \in Keys : m \in sets[k]
                       \/ \E c \in Clients : SMove!Carries(c, m)
                       \/ m \in lost)'
    BY DEF SMove!OnlyAbortLoses
  <2>0. \/ \E k \in Keys : m \in sets[k]
        \/ \E c \in Clients : SMove!Carries(c, m)
        \/ m \in lost
    BY DEF SMove!OnlyAbortLoses
  <2>1. CASE UNCHANGED SMove!vars
    BY <2>0, <2>1 DEF SMove!vars, SMove!Carries
  <2>2. ASSUME NEW c \in Clients, NEW a \in [src : Keys, dst : Keys, member : Members],
               SMove!smove(c, a)
        PROVE  (\/ \E k \in Keys : m \in sets[k]
                \/ \E d \in Clients : SMove!Carries(d, m)
                \/ m \in lost)'
    BY <2>0, <2>2 DEF SMove!smove, SMove!TypeOK, SMove!Carries
  <2>3. ASSUME NEW c \in Clients, SMove!MoveAtOnce(c)
        PROVE  (\/ \E k \in Keys : m \in sets[k]
                \/ \E d \in Clients : SMove!Carries(d, m)
                \/ m \in lost)'
    BY <2>0, <2>3 DEF SMove!MoveAtOnce, SMove!Moved, SMove!Return, SMove!TypeOK, SMove!Carries
  <2>4. ASSUME NEW c \in Clients, SMove!Remove(c)
        PROVE  (\/ \E k \in Keys : m \in sets[k]
                \/ \E d \in Clients : SMove!Carries(d, m)
                \/ m \in lost)'
    BY <2>0, <2>4 DEF SMove!Remove, SMove!Removed, SMove!Return, SMove!TypeOK, SMove!Carries
  <2>5. ASSUME NEW c \in Clients, SMove!Add(c)
        PROVE  (\/ \E k \in Keys : m \in sets[k]
                \/ \E d \in Clients : SMove!Carries(d, m)
                \/ m \in lost)'
    BY <2>0, <2>5 DEF SMove!Add, SMove!Added, SMove!Return, SMove!TypeOK, SMove!Carries
  <2>6. ASSUME NEW c \in Clients, SMove!Cut(c)
        PROVE  (\/ \E k \in Keys : m \in sets[k]
                \/ \E d \in Clients : SMove!Carries(d, m)
                \/ m \in lost)'
    BY <2>0, <2>6 DEF SMove!Cut, SMove!Return, SMove!TypeOK, SMove!Carries
  <2>7. ASSUME NEW c \in Clients, SMove!ReplyLost(c)
        PROVE  (\/ \E k \in Keys : m \in sets[k]
                \/ \E d \in Clients : SMove!Carries(d, m)
                \/ m \in lost)'
    BY <2>0, <2>7 DEF SMove!ReplyLost, SMove!Added, SMove!Moved, SMove!Removed, SMove!Return, SMove!TypeOK, SMove!Carries
  <2> QED
    BY <2>1, <2>2, <2>3, <2>4, <2>5, <2>6, <2>7 DEF SMove!Next
<1> QED
  BY <1>1, <1>2, SMoveTypeCorrect, PTL DEF SMove!Spec
=============================================================================
