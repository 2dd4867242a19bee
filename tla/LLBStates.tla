------------------------------ MODULE LLBStates ------------------------------
(***************************************************************************)
(* The states of the LLB converter in memory (llb_converter.go).  An       *)
(* LLBState is two Go maps, State and Metadata; what is in them is maps    *)
(* and slices again, and an instruction takes most of them over from the   *)
(* state before by reference.  Two places write into what they took over:  *)
(* FROM puts the platform into the State map, and VOLUME, EXPOSE and       *)
(* ONBUILD append to the slice they find.  A stage that starts from        *)
(* another works on a clone (cloneState).                                  *)
(*                                                                         *)
(* BuildPipeline gives the converter states that are values.  Here is what *)
(* that rests on: whatever shares memory, every state reads as the value   *)
(* its instructions say.                                                   *)
(*                                                                         *)
(* A map is the value of one key: of "platform" in the State map, of one   *)
(* variable in the map of ENV or LABEL.  A metadata map is made anew by    *)
(* every instruction, so a state holds its fields itself.                  *)
(***************************************************************************)
EXTENDS Naturals, Sequences

CONSTANTS
    Values,              \* what is put into lists
    Singles,             \* those of them that are a platform or the value of a variable
    MaxStages, MaxList,  \* bounds: stages, the length of a list,
    MaxCells             \* and maps and arrays made in all

NoValue == "none"

ASSUME LLBAssumption == NoValue \notin Values /\ Singles \subseteq Values

VARIABLES
    maps,       \* the maps, by address
    arrays,     \* the arrays behind slices, by address
    converted,  \* stageStates, in the order of conversion
    current,    \* the state being made
    meant,      \* history: what the instructions of each converted stage say
    meaning     \* history: what those of the stage at hand say

llbVars == <<maps, arrays, converted, current, meant, meaning>>

Settings == Singles \cup {NoValue}

NoList == [array |-> 0, len |-> 0, cap |-> 0]

NoStage == [map |-> 0, env |-> 0, list |-> NoList]

Fresh(p) == [platform |-> p, env |-> NoValue, list |-> << >>]

LLBInit ==
    /\ maps = << >> /\ arrays = << >>
    /\ converted = << >> /\ current = NoStage
    /\ meant = << >> /\ meaning = Fresh(NoValue)

(* The elements of a slice, and a state, read in memory. *)
Elements(a, l) == [k \in 1..l.len |-> a[l.array][k]]

ReadIn(m, a, s) ==
    [platform |-> m[s.map],
     env      |-> IF s.env = 0 THEN NoValue ELSE m[s.env],
     list     |-> Elements(a, s.list)]

Read(s) == ReadIn(maps, arrays, s)

-----------------------------------------------------------------------------
(* FROM. *)
Starting == current = NoStage /\ Len(converted) < MaxStages

FromImage ==
    /\ Starting
    /\ \E p \in Settings :
           /\ maps' = Append(maps, p)
           /\ meaning' = Fresh(p)
    /\ current' = [map |-> Len(maps'), env |-> 0, list |-> NoList]
    /\ UNCHANGED <<arrays, converted, meant>>

(* Mutant: cloneValue has no case for a slice of strings. *)
CloneSharingList(s) ==
    [map |-> Len(maps) + 1, env |-> IF s.env = 0 THEN 0 ELSE Len(maps) + 2, list |-> s.list]

(* Mutant: the State map is not cloned. *)
CloneSharingMap(s) ==
    [map  |-> s.map, env |-> IF s.env = 0 THEN 0 ELSE Len(maps) + 2,
     list |-> IF s.list.len = 0 THEN NoList
              ELSE [array |-> Len(arrays) + 1, len |-> s.list.len, cap |-> s.list.len]]

(***************************************************************************)
(* cloneState: a copy of each map, and of each slice with no room left.    *)
(***************************************************************************)
CloneState(s) ==
    [map  |-> Len(maps) + 1, env |-> IF s.env = 0 THEN 0 ELSE Len(maps) + 2,
     list |-> IF s.list.len = 0 THEN NoList
              ELSE [array |-> Len(arrays) + 1, len |-> s.list.len, cap |-> s.list.len]]

CloneMaps(s) ==
    maps \o <<maps[s.map]>> \o (IF s.env = 0 THEN << >> ELSE <<maps[s.env]>>)

CloneArrays(s) ==
    IF s.list.len = 0 THEN arrays ELSE Append(arrays, Elements(arrays, s.list))

(* A platform is written into the State map, whosever it is. *)
FromStage ==
    /\ Starting
    /\ \E i \in DOMAIN converted, p \in Settings :
           /\ current' = CloneState(converted[i])
           /\ maps' = IF p = NoValue THEN CloneMaps(converted[i])
                      ELSE [CloneMaps(converted[i]) EXCEPT ![current'.map] = p]
           /\ arrays' = CloneArrays(converted[i])
           /\ meaning' = IF p = NoValue THEN meant[i] ELSE [meant[i] EXCEPT !.platform = p]
    /\ UNCHANGED <<converted, meant>>

-----------------------------------------------------------------------------
(* Instructions. *)
Making == current # NoStage /\ UNCHANGED <<converted, meant>>

(* RUN, COPY and ADD: another State map, the metadata as they are. *)
NewOperation ==
    /\ Making
    /\ maps' = Append(maps, NoValue)
    /\ current' = [current EXCEPT !.map = Len(maps')]
    /\ meaning' = [meaning EXCEPT !.platform = NoValue]
    /\ UNCHANGED arrays

(* ENV and LABEL put the variables into a copy. *)
SetVariable ==
    /\ Making
    /\ \E v \in Singles :
           /\ maps' = Append(maps, v)
           /\ meaning' = [meaning EXCEPT !.env = v]
    /\ current' = [current EXCEPT !.env = Len(maps')]
    /\ UNCHANGED arrays

(* How append makes room in a short slice. *)
Grown(cap) == IF cap = 0 THEN 1 ELSE 2 * cap

(* VOLUME, EXPOSE and ONBUILD append, in place if there is room. *)
AppendList ==
    /\ Making /\ current.list.len < MaxList
    /\ \E v \in Values :
           LET l == current.list
               n == l.len + 1
           IN  /\ IF l.len < l.cap
                  THEN /\ arrays' = [arrays EXCEPT ![l.array][n] = v]
                       /\ current' = [current EXCEPT !.list.len = n]
                  ELSE /\ arrays' = Append(arrays, [k \in 1..Grown(l.cap) |->
                                        IF k < n THEN arrays[l.array][k]
                                        ELSE IF k = n THEN v ELSE NoValue])
                       /\ current' = [current EXCEPT !.list =
                              [array |-> Len(arrays'), len |-> n, cap |-> Grown(l.cap)]]
               /\ meaning' = [meaning EXCEPT !.list = Append(@, v)]
    /\ UNCHANGED maps

StageConverted ==
    /\ current # NoStage
    /\ converted' = Append(converted, current)
    /\ meant' = Append(meant, meaning)
    /\ current' = NoStage
    /\ UNCHANGED <<maps, arrays, meaning>>

WithinBounds == Len(maps') + Len(arrays') <= MaxCells

LLBNext ==
    \/ FromImage /\ WithinBounds
    \/ FromStage /\ WithinBounds
    \/ NewOperation /\ WithinBounds
    \/ SetVariable /\ WithinBounds
    \/ AppendList /\ WithinBounds
    \/ StageConverted
LLBSpec == LLBInit /\ [][LLBNext]_llbVars

-----------------------------------------------------------------------------
(***************************************************************************)
(* Read from memory, every converted stage and the one at hand have the    *)
(* platform, the variables and the lists their own instructions give them, *)
(* on top of those of the stage they start from: no later stage reaches    *)
(* into the maps and slices of an earlier one, nor into those of another   *)
(* stage that starts from the same (cloneState, cloneValue).               *)
(***************************************************************************)
SharingIsInvisible ==
    /\ \A i \in DOMAIN converted : Read(converted[i]) = meant[i]
    /\ current # NoStage => Read(current) = meaning
=============================================================================
