---------------------------- MODULE KeyboardDevice ----------------------------
(***************************************************************************)
(* The physical keyboard (external) sending bytes to the driver while a    *)
(* user program runs and nobody reads: a key that goes down or up puts one *)
(* or two bytes on the wire, and IRQ1 takes them off one at a time.        *)
(***************************************************************************)
EXTENDS Keyboard

CONSTANTS
  PlainKeys,       \* make codes of the one-byte keys
  ExtendedKeys,    \* make codes that follow E0
  WireCapacity     \* bytes the controller and the keyboard hold

\* No key has code 96: its break code would be the prefix.
ASSUME DeviceAssumption ==
  /\ PlainKeys \subseteq 1 .. 127 /\ ExtendedKeys \subseteq 1 .. 127
  /\ E0 - 128 \notin PlainKeys \cup ExtendedKeys
  /\ WireCapacity \in Nat

VARIABLES
  held,    \* the keys that are down
  wire     \* bytes not yet delivered, with the key and edge they come from

deviceVars == <<vars, held, wire>>

PhysicalKeys == ({"plain"} \X PlainKeys) \cup ({"extended"} \X ExtendedKeys)

ShiftHeld == \E k \in held : k[1] = "plain" /\ k[2] \in ShiftMake

\* The bytes of one edge of a key.  `last` is false for a prefix; `shift`
\* remembers whether a Shift key was down at that moment.
Edge(k, make) ==
  LET code == IF make THEN k[2] ELSE k[2] + 128
      item(b, last) == [byte |-> b, key |-> k, make |-> make, last |-> last,
                        shift |-> ShiftHeld]
  IN  IF k[1] = "plain" THEN <<item(code, TRUE)>>
      ELSE <<item(E0, FALSE), item(code, TRUE)>>

DeviceInit == Init /\ held = {} /\ wire = <<>>

Send(k, make) ==
  /\ Len(wire) + Len(Edge(k, make)) <= WireCapacity
  /\ wire' = wire \o Edge(k, make)
  /\ UNCHANGED vars

\* A key goes down, or repeats while it is held.
Press(k) == Send(k, TRUE) /\ held' = held \cup {k}

Release(k) == k \in held /\ Send(k, FALSE) /\ held' = held \ {k}

Deliver ==
  /\ wire # <<>>
  /\ IRQ1(Head(wire).byte)
  /\ wire' = Tail(wire)
  /\ UNCHANGED held

DeviceNext == Deliver \/ \E k \in PhysicalKeys : Press(k) \/ Release(k)

DeviceSpec == DeviceInit /\ [][DeviceNext]_deviceVars

------------------------------------------------------------------------------
\* Once every byte is delivered the decoder has no half-read key, and no Shift
\* stays down when neither Shift key is: whatever the order in which keys are
\* pressed, repeated and released, extended keys with fake Shift codes included.
Settled == wire = <<>> => ~e0_prefix /\ (shiftPressed => ShiftHeld)

\* The key that a complete make types: an arrow for an E0 code, the table's
\* character for a plain one.
Meaning(k) == IF k[1] = "extended" THEN Arrow(k[2]) ELSE Translate(k[2], capsLock)

\* A delivery types exactly the key that went down: nothing for a release, for
\* a prefix or for the second byte of an extended key that is not an arrow, and
\* never the plain key whose code follows the prefix.
TypesWhatIsPressed ==
  [][ LET typed == fresh' # fresh \/ buf' # buf
          item  == Head(wire)
      IN  Len(wire') < Len(wire) =>
            /\ typed => /\ item.make /\ item.last
                        /\ buf'[lastkey] = Meaning(item.key)
            /\ (item.make /\ item.last /\ item.byte # TabMake
                 /\ Meaning(item.key) # NUL) => buf'[lastkey] = Meaning(item.key)
    ]_deviceVars

\* A register snapshot is taken only for a Tab pressed with a Shift key down.
SnapshotNeedsShift ==
  [][ regsSaved' # regsSaved => Head(wire).key[2] = TabMake /\ Head(wire).shift ]_deviceVars
=============================================================================
