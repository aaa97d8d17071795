------------------------------ MODULE KVStore ------------------------------
(***************************************************************************)
(* The key-value store the instances are applied to: src/kvstore/store.go. *)
(*                                                                         *)
(* The store is its map of values, data; an operation is an operator from  *)
(* the map before to the map after, the value returned and the error.      *)
(* What get, set, del and the validations do is not in the sources: they   *)
(* are written from src/kvstore/cmd_del_test.go, and set from what         *)
(* src/store/redis_test.go says of it.  A time is a natural number, zero   *)
(* being the zero time.                                                    *)
(***************************************************************************)
EXTENDS Naturals, Sequences, FiniteSets, Functions, TLC

CONSTANT NoValue    \* a nil store.Value, a nil error

GET == "GET"
SET == "SET"
DEL == "DEL"

String(data, time)   == [type |-> "STRING", data |-> data, time |-> time]
Tombstone(time)      == [type |-> "TOMBSTONE", time |-> time]
Boolean(value, time) == [type |-> "BOOLEAN", value |-> value, time |-> time]

\* NewKVStore.
NewKVStore == <<>>

\* What an operation returns.
Returns(data, val, err) == [data |-> data, val |-> val, err |-> err]

\* strings.ToUpper on the commands of the model.
ToUpper(cmd) ==
    CASE cmd = "get" -> GET [] cmd = "set" -> SET [] cmd = "del" -> DEL [] OTHER -> cmd

\* validateGet, validateSet, validateDel: the arguments a command takes,
\* and a time for a write.
validate(instruction) ==
    CASE instruction.cmd = GET -> instruction.args = <<>>
      [] instruction.cmd = SET -> Len(instruction.args) = 1 /\ instruction.timestamp # 0
      [] instruction.cmd = DEL -> instruction.args = <<>> /\ instruction.timestamp # 0

\* get, set and del: a set of a time lower than that of what the key
\* holds is ignored; del leaves a tombstone where there was a value and
\* answers with the time of the value, and writes nothing where there was
\* none.
get(data, key) ==
    Returns(data, IF key \in DOMAIN data THEN data[key] ELSE NoValue, NoValue)

set(data, key, value, time) ==
    IF key \in DOMAIN data /\ data[key].time > time
    THEN Returns(data, data[key], NoValue)
    ELSE Returns((key :> String(value, time)) @@ data, String(value, time), NoValue)

del(data, key, time) ==
    IF key \in DOMAIN data
    THEN Returns((key :> Tombstone(time)) @@ data, Boolean(TRUE, data[key].time), NoValue)
    ELSE Returns(data, Boolean(FALSE, 0), NoValue)

\* ExecuteInstruction: the command as it is written decides; a command
\* that is none of the three and an instruction that is not valid leave
\* the store as it is and return an error.
ExecuteInstruction(data, instruction) ==
    IF instruction.cmd \notin {GET, SET, DEL} THEN Returns(data, NoValue, "unrecognized")
    ELSE IF ~validate(instruction) THEN Returns(data, NoValue, "invalid")
    ELSE CASE instruction.cmd = GET -> get(data, instruction.key)
           [] instruction.cmd = SET -> set(data, instruction.key, instruction.args[1],
                                           instruction.timestamp)
           [] instruction.cmd = DEL -> del(data, instruction.key, instruction.timestamp)

\* IsReadOnly and IsWriteOnly: the command in upper case decides.
IsReadOnly(instruction) == ToUpper(instruction.cmd) = GET

IsWriteOnly(instruction) == ToUpper(instruction.cmd) \in {SET, DEL}

\* Fault: no key.
InterferingKeysNone(instruction) == <<>>

\* InterferingKeys.
InterferingKeys(instruction) == <<instruction.key>>

-----------------------------------------------------------------------------
\* The values of the highest time: getHighValue returns one of them.
getHighValue(values) ==
    { v \in Range(values) : \A w \in Range(values) : w.time <= v.time }

\* reconcileString and reconcileTombstone: the newest value, and for every
\* holder of another one the instruction that corrects it.
reconcileTo(values, high, instruction) ==
    [val |-> high, err |-> NoValue,
     adjustments |-> [n \in { m \in DOMAIN values : values[m] # high } |-> <<instruction>>]]

\* Fault: two values are taken as one.
ReconcileOneOrTwo(key, values) ==
    {[val |-> v, err |-> NoValue, adjustments |-> <<>>] : v \in Range(values)}

\* Reconcile on the values held for a key: what it may return.  No value
\* is an error, one value is returned as it is, and of several the type
\* of the newest decides.
Reconcile(key, values) ==
    IF DOMAIN values = {}
    THEN {[val |-> NoValue, err |-> "empty", adjustments |-> <<>>]}
    ELSE IF Cardinality(DOMAIN values) = 1
    THEN {[val |-> v, err |-> NoValue, adjustments |-> <<>>] : v \in Range(values)}
    ELSE { CASE h.type = "STRING" ->
                  reconcileTo(values, h, [cmd |-> SET, key |-> key, args |-> <<h.data>>,
                                          timestamp |-> h.time])
             [] h.type = "TOMBSTONE" ->
                  reconcileTo(values, h, [cmd |-> DEL, key |-> key, args |-> <<>>,
                                          timestamp |-> h.time])
             [] OTHER -> [val |-> NoValue, err |-> "unknown", adjustments |-> <<>>] :
           h \in getHighValue(values) }

\* GetRawKey and KeyExists of the data import and export.
GetRawKey(data, key) ==
    IF key \in DOMAIN data THEN Returns(data, data[key], NoValue)
    ELSE Returns(data, NoValue, "missing")

KeyExists(data, key) == key \in DOMAIN data
=============================================================================
