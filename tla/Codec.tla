-------------------------------- MODULE Codec ---------------------------------
(***************************************************************************)
(* The coding of messages in src/command.c: integers as variable length    *)
(* quantities, responses by the encoders of src/compile_time_request.c,    *)
(* and the guard that keeps sendf from running twice at a time.            *)
(*                                                                         *)
(* The host parses a response as command_parsef parses a command, from the *)
(* same declarations.  A word of 32 bits is taken as signed; a buffer is   *)
(* never longer than its response has room for, as with the host's         *)
(* requests.  Console has the transmit buffer and the frame.               *)
(***************************************************************************)
EXTENDS Board, FiniteSetsExt

CONSTANTS
    Words,   \* a sequence of values of a 32-bit parameter
    Buffers  \* a sequence of contents of a buffer parameter

Byte == 0 .. 255
Word == {v \in Int : v >= -2147483647 - 1 /\ v <= 2147483647}

ASSUME CodecAssumption ==
    /\ Words \in Seq(Word) \ {<<>>}
    /\ Buffers \in Seq(Seq(Byte)) \ {<<>>}

VARIABLES
    in_sendf, \* as in the code
    said,     \* the response that was begun last
    block     \* its bytes from the msgid to the last parameter, if finished
codecVars == <<in_sendf, said, block>>

-----------------------------------------------------------------------------
(* encode_int: the number of bytes before the last.  Mutant: one more bit   *)
(* for a positive value, which the sign test of the parser takes.           *)
Radix == <<1, 128, 16384, 2097152, 268435456>>
FitsUpTo4(v, k) == v < 128 * Radix[k + 1] /\ v >= -(32 * Radix[k + 1])
Fits(v, k) == v < 96 * Radix[k + 1] /\ v >= -(32 * Radix[k + 1])
Continued(v) == Min({k \in 0 .. 3 : Fits(v, k)} \cup {4})

EncodeInt(v) ==
    LET n == Continued(v)
    IN [i \in 1 .. n + 1 |->
           ((v \div Radix[n + 2 - i]) % (IF i = 1 /\ n = 4 THEN 16 ELSE 128))
           + (IF i <= n THEN 128 ELSE 0)]

(* parse_int of the bytes b: the value, whose first byte has its sign, and  *)
(* how many bytes it takes.                                                 *)
Shifted(v) == 128 * (((v + 16777216) % 33554432) - 16777216)
ParseInt(b) ==
    LET n == Min({i \in 1 .. Len(b) : b[i] < 128})
        c == b[1] % 128
        value[i \in 1 .. n] ==
            IF i = 1 THEN IF c >= 96 THEN c - 128 ELSE c
            ELSE Shifted(value[i - 1]) + (b[i] % 128)
    IN [size |-> n, value |-> value[n]]

(* encode_msgid and command_parse_msgid                                     *)
EncodeMsgid(id) == IF id >= 128 THEN <<(id \div 128) + 128, id % 128>> ELSE <<id>>
ParseMsgid(b) ==
    IF b[1] >= 128 THEN [size |-> 2, value |-> (b[1] % 128) * 128 + b[2]]
    ELSE [size |-> 1, value |-> b[1]]

(* command_encodef                                                          *)
EncodeArg(t, arg) == IF t = "s" THEN <<Len(arg)>> \o arg ELSE EncodeInt(arg)
Encodef(e, args) ==
    LET bytes[i \in 0 .. Len(args)] ==
            IF i = 0 THEN EncodeMsgid(e.id)
            ELSE bytes[i - 1] \o EncodeArg(e.types[i], args[i])
    IN bytes[Len(args)]

(* command_parsef of the bytes b, of which the parameters end at maxend:    *)
(* the next parameter, and all of them.                                     *)
ParseArg(t, done, b, maxend) ==
    LET rest == SubSeq(b, done.size + 1, Len(b))
        int == ParseInt(rest)
    IN IF done.error \/ done.size > maxend THEN [done EXCEPT !.error = TRUE]
       ELSE IF t # "s"
       THEN [done EXCEPT !.args = Append(@, int.value), !.size = @ + int.size]
       ELSE IF done.size + 1 + rest[1] > maxend THEN [done EXCEPT !.error = TRUE]
       ELSE [done EXCEPT !.args = Append(@, SubSeq(rest, 2, 1 + rest[1])),
                         !.size = @ + 1 + rest[1]]
Parsef(types, b, maxend) ==
    LET done[i \in 0 .. Len(types)] ==
            IF i = 0 THEN [args |-> <<>>, size |-> 0, error |-> FALSE]
            ELSE ParseArg(types[i], done[i - 1], b, maxend)
    IN done[Len(types)]

-----------------------------------------------------------------------------
(* The encoders: a name, encoded_msgid, max_size, and param_types, of which *)
(* "s" is a buffer.                                                         *)
command_encoder == {
    <<"analog_in_state", 94, 64, <<"c", "u32", "s">>>>,
    <<"identify_response", 0, 64, <<"u32", "s">>>>,
    <<"stats", 95, 21, <<"u32", "u32", "u32">>>>,
    <<"uptime", 96, 16, <<"u32", "u32">>>>,
    <<"clock", 97, 11, <<"u32">>>>,
    <<"config", 98, 18, <<"c", "u32", "c", "u16">>>>,
    <<"buttons_state", 99, 64, <<"c", "c", "s">>>>,
    <<"pong", 100, 64, <<"s">>>>,
    <<"debug_result", 101, 11, <<"u32">>>>,
    <<"endstop_state", 102, 17, <<"c", "c", "u32", "c">>>>,
    <<"neopixel_result", 103, 10, <<"c", "c">>>>,
    <<"counter_state", 104, 23, <<"c", "u32", "u32", "u32">>>>,
    <<"starting", 105, 6, <<>>>>,
    <<"is_shutdown", 106, 9, <<"u16">>>>,
    <<"shutdown", 107, 14, <<"u32", "u16">>>>,
    <<"spi_angle_transfer_response", 108, 64, <<"c", "u32", "s">>>>,
    <<"sensor_bulk_status", 109, 29, <<"c", "u32", "u32", "u16", "u32", "u16">>>>,
    <<"sensor_bulk_data", 110, 64, <<"c", "u16", "s">>>>,
    <<"spi_transfer_response", 111, 64, <<"c", "s">>>>,
    <<"stepper_position", 112, 13, <<"c", "i32">>>>,
    <<"thermocouple_result", 113, 20, <<"c", "u32", "u32", "c">>>>,
    <<"tmcuart_response", 114, 64, <<"c", "s">>>>,
    <<"trigger_analog_state", 115, 15, <<"c", "c", "u32">>>>,
    <<"trsync_state", 116, 17, <<"c", "c", "c", "u32">>>>}
Encoder(name) == LET e == CHOOSE x \in command_encoder : x[1] = name
                 IN [id |-> e[2], max_size |-> e[3], types |-> e[4]]

(* Arguments, all of which take their n-th value.                           *)
ValuesOf(t) ==
    CASE t = "c" -> <<0, 95, 96, 127, 128, 255>>
      [] t = "u16" -> <<0, 95, 96, 12287, 12288, 65535>>
      [] t = "s" -> Buffers
      [] OTHER -> Words
Nth(values, n) == values[1 + (n % Len(values))]
Arguments(types, n) == [i \in 1 .. Len(types) |-> Nth(ValuesOf(types[i]), n)]

CodecInit ==
    in_sendf = FALSE /\ said = [types |-> <<>>, args |-> <<>>] /\ block = <<>>

(* command_sendf: nothing if it runs already, ...                           *)
Sendf(name, n) ==
    LET e == Encoder(name)
    IN /\ in_sendf' = TRUE
       /\ task' = IF in_sendf THEN Idle ELSE [at |-> "sendf", encoder |-> name]
       /\ block' = IF in_sendf THEN block ELSE <<>>
       /\ said' = IF in_sendf THEN said
                  ELSE [types |-> e.types, args |-> Arguments(e.types, n)]
       /\ UNCHANGED <<now, wake>>

(* ... and the message in the buffer.                                       *)
SendfDone ==
    /\ task.at = "sendf"
    /\ block' = Encodef(Encoder(task.encoder), said.args)
    /\ in_sendf' = FALSE /\ task' = Idle
    /\ UNCHANGED <<now, shutdown, wake, said>>

(* A command or a task function responds.  A buffer, which is the last of   *)
(* at most three parameters, is no longer than the others leave room for.   *)
Widest(t) == CASE t = "c" -> 2 [] t = "u16" -> 3 [] OTHER -> 5
Room(e) ==
    e.max_size - 7 - (IF Len(e.types) > 1 THEN Widest(e.types[1]) ELSE 0)
                   - (IF Len(e.types) > 2 THEN Widest(e.types[2]) ELSE 0)
BufferFits(e, args) ==
    \A i \in 1 .. Len(e.types) : e.types[i] = "s" => Len(args[i]) <= Room(e)
Respond(name, n) ==
    /\ BufferFits(Encoder(name), Arguments(Encoder(name).types, n))
    /\ AnyCommand /\ Sendf(name, n) /\ UNCHANGED shutdown

(* A timer callback shuts down, and the task loop is where it began: in     *)
(* run_shutdown, which has sendf_shutdown run and then reports.             *)
sendf_shutdown(guard) == FALSE
CallbackShutdown ==
    /\ ~shutdown /\ shutdown' = TRUE
    /\ in_sendf' = sendf_shutdown(in_sendf)
    /\ task' = [at |-> "report"]
    /\ UNCHANGED <<now, wake, said, block>>
ReportShutdown ==
    task.at = "report" /\ Sendf("shutdown", 0) /\ UNCHANGED shutdown

CodecNext ==
    \/ \E e \in command_encoder : \E n \in 1 .. Len(Words) : Respond(e[1], n)
    \/ ClearShutdown /\ UNCHANGED <<now, task, wake, codecVars>>
    \/ /\ UNCHANGED commands
       /\ \/ SendfDone \/ CallbackShutdown \/ ReportShutdown

CodecAll == <<now, shutdown, task, wake, commands, codecVars>>
CodecSpec == BoardInit /\ CodecInit /\ [][CodecNext]_CodecAll

-----------------------------------------------------------------------------
(* The guard of sendf is closed only while sendf runs; else every later     *)
(* response would be dropped.                                               *)
SendfOpens == in_sendf <=> task.at = "sendf"

(* A response is parsed into what was said, whatever its values and the crc *)
(* behind it, and is not longer than the room that console_sendf made for   *)
(* it by max_size.                                                          *)
Trailers == {<<0, 0, 126>>, <<255, 255, 126>>}
RoundTrip ==
    block # <<>> =>
    \A trailer \in Trailers :
        LET id == ParseMsgid(block)
            e == CHOOSE e \in command_encoder : e[2] = id.value
            bytes == block \o trailer
            parsed == Parsef(e[4], SubSeq(bytes, id.size + 1, Len(bytes)),
                             Len(block) - id.size)
        IN /\ e[4] = said.types /\ ~parsed.error /\ parsed.args = said.args
           /\ parsed.size + id.size = Len(block)
           /\ Len(block) <= e[3] - 5

CodecSound == SendfOpens /\ RoundTrip
===============================================================================
