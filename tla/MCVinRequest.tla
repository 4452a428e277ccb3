----------------------------- MODULE MCVinRequest -----------------------------
(* Small vehicles for VinRequest: signals at the edges of bytes, signed and scaled ones, *)
(* two of one name, states of one name, commands; with and without a signal for the VIN. *)
EXTENDS VinRequest

MCSignal(name, position, size, factor, offset) ==
    [name |-> name, bus |-> 1, id |-> 1, bitPosition |-> position, bitSize |-> size,
     factor |-> factor, scale |-> 1, offset |-> offset, twosComplement |-> FALSE, states |-> <<>>,
     writable |-> TRUE, writeHandler |-> "NULL"]

MCStates == <<[value |-> 1, name |-> "left"], [value |-> 6, name |-> "park"],
              [value |-> 7, name |-> "park"]>>

\* A signal that hosts may write behind a read-only one of the same name.
MCVehicle(signal) ==
    [signals |-> <<[MCSignal(signal.name, 20, 4, 1, 0) EXCEPT !.writable = FALSE], signal>>,
     commands |-> {}]

MCNumbers == {MCSignal("speed", layout[1], layout[2], layout[3], layout[4]) :
                 layout \in {<<0, 1, 1, 0>>, <<0, 8, 1, 0>>, <<3, 5, 1, 0>>, <<4, 16, 3, -15>>,
                             <<7, 2, 1, 1>>, <<12, 4, 2, 0>>, <<14, 9, 1, -2>>, <<30, 20, 5, 0>>,
                             <<56, 8, 1, 0>>, <<63, 1, 1, 0>>}}

\* With factors of 1/8, in a field of 32 bits, 1/10, 3/4 and 1/100, as tables have them; of
\* the last a large value is beyond what floats tell apart.
MCScaled == {[MCSignal("speed", layout[1], layout[2], layout[3], layout[5]) EXCEPT !.scale = layout[4]] :
                layout \in {<<0, 32, 1, 8, 0>>, <<20, 12, 1, 10, -40>>, <<32, 32, 3, 4, -1>>,
                            <<5, 24, 1, 100, 2>>}}

MCSigned == {[MCSignal("speed", 5, 7, 2, 1) EXCEPT !.twosComplement = TRUE],
             [MCSignal("speed", 40, 16, 1, 0) EXCEPT !.twosComplement = TRUE]}

MCStated == {[MCSignal("speed", 6, 4, 1, 0) EXCEPT !.states = MCStates, !.bus = 2],
             [MCSignal("speed", 9, 1, 1, 0) EXCEPT !.writeHandler = "booleanWriter", !.bus = 2]}

MCTurn == [signals |-> <<[MCSignal("turn_signal_left", 2, 1, 1, 0) EXCEPT !.writable = FALSE]>>,
           commands |-> {"turn_signal_status"}]

MCAsking(writable) ==
    [signals |-> <<[MCSignal("service_id", 0, 16, 1, 0) EXCEPT !.writable = writable]>>,
     commands |-> {}]

MCVehicles == {MCVehicle(s) : s \in MCNumbers \cup MCScaled \cup MCSigned \cup MCStated}
                  \cup {MCTurn, MCAsking(TRUE), MCAsking(FALSE)}

MCValues == [type : {"number"}, number : {-2, 0, 1, 2, 3, 11, 255, 300, 100003}]
                \cup [type : {"string"}, string : {"left", "right", "park"}]
                \cup [type : {"true", "false"}] \cup {Missing}

MCRequests == [name : {"speed"}, value : MCValues]
                 \cup [name : {"turn_signal_status"},
                       value : [type : {"string"}, string : {"left", "right", "park"}]]
                 \cup [id : {7}, data : {Missing, [type |-> "string", word |-> {0, 9, 40, 63}]}]
                 \cup {[value |-> Missing]}
=============================================================================
