----------------------------- MODULE RedisStore -----------------------------
(***************************************************************************)
(* The store of src/redis/store.go and its values, src/redis/value.go.     *)
(*                                                                         *)
(* As in KVStore the store is its map of values, and an operation an       *)
(* operator from the map before to the map after, the value returned and   *)
(* the error; get, set, del and the validations, which are not in the      *)
(* sources, are written from the tests of the two stores.  A serialized    *)
(* value is a sequence of fields, a field being what one call of the       *)
(* serializer package or of binary.Write writes.                           *)
(***************************************************************************)
EXTENDS Naturals, Sequences, FiniteSets, Functions, TLC

CONSTANTS
    NoValue,    \* a nil store.Value, a nil error
    Failed      \* the error of a read from a buffer

GET == "GET"
SET == "SET"
DEL == "DEL"

STRING_VALUE       == "STRING"
TOMBSTONE_VALUE    == "TOMBSTONE"
DEL_RESPONSE_VALUE == "DEL_RESPONSE"

\* The three types of value; GetValueType(v) is v.type.
newStringValue(data, time) == [type |-> STRING_VALUE, data |-> data, time |-> time]
newTombstoneValue(time)    == [type |-> TOMBSTONE_VALUE, time |-> time]
delResponseValue(keys)     == [type |-> DEL_RESPONSE_VALUE, keys |-> keys]

\* GetTimestamp: the answer to a delete has the zero time.
GetTimestamp(v) == IF v.type = DEL_RESPONSE_VALUE THEN 0 ELSE v.time

\* Serialize and Deserialize of a string: the data and the time.
stringSerialize(v) == <<v.data, v.time>>

stringDeserialize(buf) ==
    IF Len(buf) < 2 THEN Failed ELSE newStringValue(buf[1], buf[2])

\* Fault: a tombstone is written without its time.
tombstoneSerializeNoTime(v) == <<>>

\* Serialize and Deserialize of a tombstone: the time.
tombstoneSerialize(v) == <<v.time>>

tombstoneDeserialize(buf) ==
    IF Len(buf) < 1 THEN Failed ELSE newTombstoneValue(buf[1])

\* Serialize and Deserialize of the answer to a delete: the number of
\* keys, then each.
delResponseSerialize(v) == <<Len(v.keys)>> \o v.keys

delResponseDeserialize(buf) ==
    IF Len(buf) < 1 THEN Failed
    ELSE IF Len(buf) < 1 + buf[1] THEN Failed
    ELSE delResponseValue(SubSeq(buf, 2, 1 + buf[1]))

\* v.Serialize, by the type of v.
Serialize(v) ==
    CASE v.type = STRING_VALUE       -> stringSerialize(v)
      [] v.type = TOMBSTONE_VALUE    -> tombstoneSerialize(v)
      [] v.type = DEL_RESPONSE_VALUE -> delResponseSerialize(v)

\* WriteRedisValue: the type, then the value.
WriteRedisValue(v) == <<v.type>> \o Serialize(v)

\* ReadRedisValue: a type that is none of the three is an error.  The
\* reader it wraps the buffer in reads ahead: nothing is left of the buffer
\* for the caller.
ReadRedisValue(buf) ==
    IF buf = <<>> THEN Failed
    ELSE LET vtype == buf[1]
             value == CASE vtype = STRING_VALUE       -> stringDeserialize(Tail(buf))
                        [] vtype = TOMBSTONE_VALUE    -> tombstoneDeserialize(Tail(buf))
                        [] vtype = DEL_RESPONSE_VALUE -> delResponseDeserialize(Tail(buf))
                        [] OTHER                      -> Failed
         IN  IF value = Failed THEN Failed ELSE [val |-> value, vtype |-> vtype]

-----------------------------------------------------------------------------
\* NewRedis.
NewRedis == <<>>

Returns(data, val, err) == [data |-> data, val |-> val, err |-> err]

ToUpper(cmd) ==
    CASE cmd = "get" -> GET [] cmd = "set" -> SET [] cmd = "del" -> DEL [] OTHER -> cmd

\* get, set and del with their validations, as in KVStore: a set of a
\* time lower than that of what the key holds is ignored
\* (TestSetConflictingTimestamp); the answer to a delete names the keys
\* deleted.
get(data, key, args) ==
    IF args # <<>> THEN Returns(data, NoValue, "invalid")
    ELSE Returns(data, IF key \in DOMAIN data THEN data[key] ELSE NoValue, NoValue)

set(data, key, args, time) ==
    IF Len(args) # 1 \/ time = 0 THEN Returns(data, NoValue, "invalid")
    ELSE IF key \in DOMAIN data /\ data[key].time > time
    THEN Returns(data, data[key], NoValue)
    ELSE Returns((key :> newStringValue(args[1], time)) @@ data,
                 newStringValue(args[1], time), NoValue)

del(data, key, args, time) ==
    IF args # <<>> \/ time = 0 THEN Returns(data, NoValue, "invalid")
    ELSE IF key \in DOMAIN data
    THEN Returns((key :> newTombstoneValue(time)) @@ data, delResponseValue(<<key>>), NoValue)
    ELSE Returns(data, delResponseValue(<<>>), NoValue)

\* ExecuteRead and ExecuteWrite: the command as it is written decides.
ExecuteRead(data, cmd, key, args) ==
    IF cmd = GET THEN get(data, key, args) ELSE Returns(data, NoValue, "unrecognized")

ExecuteWrite(data, cmd, key, args, timestamp) ==
    CASE cmd = SET -> set(data, key, args, timestamp)
      [] cmd = DEL -> del(data, key, args, timestamp)
      [] OTHER     -> Returns(data, NoValue, "unrecognized")

\* IsReadCommand and IsWriteCommand: the command in upper case decides.
IsReadCommand(cmd) == ToUpper(cmd) = GET

IsWriteCommand(cmd) == ToUpper(cmd) \in {SET, DEL}

-----------------------------------------------------------------------------
\* The values of the highest time: getHighValue returns one of them.
getHighValue(values) ==
    { v \in Range(values) :
        \A w \in Range(values) : GetTimestamp(w) <= GetTimestamp(v) }

\* What a reconciliation returns: the value, and for every node that holds
\* another one the instructions that correct it.
Reconciled(values, high, instruction) ==
    [val |-> high, err |-> NoValue,
     adjustments |-> [n \in { m \in DOMAIN values : values[m] # high } |-> <<instruction>>]]

reconcileString(key, high, values) ==
    Reconciled(values, high,
               [cmd |-> SET, key |-> key, args |-> <<high.data>>, timestamp |-> high.time])

reconcileTombstone(key, high, values) ==
    Reconciled(values, high,
               [cmd |-> DEL, key |-> key, args |-> <<>>, timestamp |-> high.time])

\* Fault: two values are taken as one.
ReconcileOneOrTwo(key, values) ==
    {[val |-> v, err |-> NoValue, adjustments |-> <<>>] : v \in Range(values)}

\* Reconcile on the values the nodes hold for a key: what it may return.
\* No value is an error, one value is returned as it is, and of several
\* the type of the newest decides.
Reconcile(key, values) ==
    IF DOMAIN values = {}
    THEN {[val |-> NoValue, err |-> "empty", adjustments |-> <<>>]}
    ELSE IF Cardinality(DOMAIN values) = 1
    THEN {[val |-> v, err |-> NoValue, adjustments |-> <<>>] : v \in Range(values)}
    ELSE { CASE h.type = STRING_VALUE    -> reconcileString(key, h, values)
             [] h.type = TOMBSTONE_VALUE -> reconcileTombstone(key, h, values)
             [] OTHER -> [val |-> NoValue, err |-> "unknown", adjustments |-> <<>>] :
           h \in getHighValue(values) }

\* The data import and export: GetRawKey, SetRawKey, GetKeys (in the order
\* of the map, here a set) and KeyExists.
GetRawKey(data, key) ==
    IF key \in DOMAIN data THEN Returns(data, data[key], NoValue)
    ELSE Returns(data, NoValue, "missing")

SetRawKey(data, key, val) == (key :> val) @@ data

GetKeys(data) == DOMAIN data

KeyExists(data, key) == key \in DOMAIN data
=============================================================================
