-------------------------------- MODULE Wire --------------------------------
(***************************************************************************)
(* An instance as bytes: the serializers of src/consensus/instance.go.     *)
(*                                                                         *)
(* A buffer is a sequence of fields, a field being what one call of the    *)
(* serializer package or of binary.Write puts there: a string with its     *)
(* length, a number, a time, a byte.  A read fails when the buffer ends    *)
(* before the field does, so a decoder fails exactly when the buffer is    *)
(* shorter than the fields it asks for; Failed stands for its error.       *)
(***************************************************************************)
EXTENDS Instance

CONSTANT Failed     \* a decoder's error

\* What a decoder returns: the value and the rest of the buffer.
Decoded(val, buf, n) == [val |-> val, rest |-> SubSeq(buf, n + 1, Len(buf))]

\* instructionSerialize: Cmd, Key, the number of Args, the Args, Timestamp.
instructionSerialize(instruction) ==
    <<instruction.cmd, instruction.key, Len(instruction.args)>>
        \o instruction.args \o <<instruction.timestamp>>

\* instructionDeserialize.
instructionDeserialize(buf) ==
    IF Len(buf) < 4 THEN Failed
    ELSE IF Len(buf) < 4 + buf[3] THEN Failed
    ELSE Decoded([cmd |-> buf[1], key |-> buf[2],
                  args |-> SubSeq(buf, 4, 3 + buf[3]),
                  timestamp |-> buf[4 + buf[3]]], buf, 4 + buf[3])

\* The loop of instanceLimitedDeserialize over the commands: n
\* instructions from the buffer, after those of val.
RECURSIVE commandsDeserialize(_, _, _)
commandsDeserialize(buf, n, val) ==
    IF n = 0 THEN Decoded(val, buf, 0)
    ELSE LET instr == instructionDeserialize(buf)
         IN  IF instr = Failed THEN Failed
             ELSE commandsDeserialize(instr.rest, n - 1, Append(val, instr.val))

\* Fault: the dependencies without their number.
dependenciesSerializeNoCount(deps) == deps

\* The dependencies of instanceLimitedSerialize: their number, then each.
dependenciesSerialize(deps) == <<Len(deps)>> \o deps

\* instanceLimitedSerialize: InstanceID, LeaderID, the number of Commands
\* and each of them, the Dependencies, Sequence, Status, MaxBallot, and a
\* byte each for Noop and DependencyMatch.
instanceLimitedSerialize(instance) ==
    <<instance.id, instance.leader, Len(instance.commands)>>
        \o FlattenSeq([k \in DOMAIN instance.commands |->
                          instructionSerialize(instance.commands[k])])
        \o dependenciesSerialize(instance.deps)
        \o <<instance.seq, instance.status, instance.ballot,
             IF instance.noop THEN 255 ELSE 0, IF instance.match THEN 255 ELSE 0>>

\* instanceLimitedDeserialize: the timeouts of the instance it returns
\* have their zero value, here Nil.
instanceLimitedDeserialize(buf) ==
    IF Len(buf) < 3 THEN Failed
    ELSE LET commands == commandsDeserialize(SubSeq(buf, 4, Len(buf)), buf[3], <<>>)
             tail     == commands.rest
             numDeps  == tail[1]
         IN  IF commands = Failed THEN Failed
             ELSE IF Len(tail) < 6 THEN Failed
             ELSE IF Len(tail) < 6 + numDeps THEN Failed
             ELSE Decoded([id |-> buf[1], leader |-> buf[2], commands |-> commands.val,
                           deps   |-> SubSeq(tail, 2, 1 + numDeps),
                           seq    |-> tail[2 + numDeps],
                           status |-> tail[3 + numDeps],
                           ballot |-> tail[4 + numDeps],
                           noop   |-> tail[5 + numDeps] # 0,
                           match  |-> tail[6 + numDeps] # 0,
                           commitTimeout |-> Nil, executeTimeout |-> Nil],
                          tail, 6 + numDeps)

\* instanceSerialize: the limited form, then the two timeouts.
instanceSerialize(instance) ==
    instanceLimitedSerialize(instance)
        \o <<instance.commitTimeout, instance.executeTimeout>>

\* instanceDeserialize.
instanceDeserialize(buf) ==
    LET limited == instanceLimitedDeserialize(buf)
    IN  IF limited = Failed THEN Failed
        ELSE IF Len(limited.rest) < 2 THEN Failed
        ELSE Decoded([limited.val EXCEPT !.commitTimeout = limited.rest[1],
                                         !.executeTimeout = limited.rest[2]],
                     limited.rest, 2)
=============================================================================
