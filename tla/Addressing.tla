----------------------------- MODULE Addressing -----------------------------
(***************************************************************************)
(* Addressing modes: an AddressingModeNegotiator                           *)
(* (addressing_negotiation.py), the changes of mode its owner makes        *)
(* (tn3270_handler.py, negotiator.py), and the extended screen buffer that *)
(* these changes convert (extended_screen_buffer.py, extended_position.py, *)
(* addressing.py).  The handler and the negotiator own one each and treat  *)
(* it differently; a behaviour is about one of them.  The limits of the    *)
(* modes, 4096 and 16384 positions, are constants.                         *)
(***************************************************************************)
EXTENDS Integers, Sequences

CONSTANTS
  Limit12, Limit14,  \* positions the modes can address
  Columns, RowCounts \* the screens

ASSUME LimitsGrow == Limit12 \in Nat /\ Limit14 \in Nat /\ Limit12 < Limit14
ASSUME ScreenSizes == Columns \in Nat \ {0} /\ RowCounts \subseteq Nat \ {0}

Owners == {"handler", "negotiator"}
Modes == {"12-bit", "14-bit"}
NoMode == "none"

VARIABLES
  owner,     \* the handler or the negotiator
  an,        \* its _addressing_negotiator
  rowCount,  \* rows of the screen
  ebuf       \* its screen_buffer: mode, cursor and extended cursor

addressVars == <<owner, an, rowCount, ebuf>>

MaxPositions(mode) == IF mode = "12-bit" THEN Limit12 ELSE Limit14
ValidAddress(a, mode) == 0 <= a /\ a < MaxPositions(mode)

\* address_to_coords() and coords_to_address(), for addresses in range.
Coords(a) == <<a \div Columns, a % Columns>>
Address(pos) == pos[1] * Columns + pos[2]

Fresh == [state |-> "not_negotiated", mode |-> NoMode, server |-> <<>>, overridden |-> FALSE]

AddressingInit ==
  /\ owner \in Owners
  /\ an = Fresh
  /\ rowCount \in RowCounts
  /\ \E m \in Modes :
       /\ ValidAddress(rowCount * Columns - 1, m)
       /\ ebuf = [mode |-> m, cursor |-> <<0, 0>>, ext |-> <<0, 0>>]

-----------------------------------------------------------------------------
\* The mode is set, and the state that names it.
Settle(mode) ==
  an' = [an EXCEPT !.mode = mode, !.state = mode, !.overridden = FALSE]

ParseServerCapabilities(server) ==
  /\ an' = [an EXCEPT !.server = server]
  /\ UNCHANGED <<owner, rowCount, ebuf>>

\* negotiate_mode(): 12-bit without capabilities, else the first of the
\* client's list, 12-bit then 14-bit, that the server has.
NegotiateMode ==
  LET server == an.server
      has(m) == \E i \in 1..Len(server) : server[i] = m
  IN  /\ Settle(IF server = <<>> \/ has("12-bit") THEN "12-bit" ELSE "14-bit")
      /\ UNCHANGED <<owner, rowCount, ebuf>>

\* The client's capabilities, in the order in which they are tried.
ClientModes == <<"12-bit", "14-bit">>

\* negotiate_addressing_mode(), in which the client's own list stands for the
\* server's: the handler's, ...
HandlerNegotiatesMode ==
  /\ owner = "handler"
  /\ an' = [an EXCEPT !.server = ClientModes, !.mode = "12-bit", !.state = "12-bit",
                      !.overridden = FALSE]
  /\ UNCHANGED <<owner, rowCount, ebuf>>

\* ... and the negotiator's, which makes its AddressingModeNegotiator if need be.
NegotiatorNegotiatesMode ==
  /\ owner = "negotiator"
  /\ an' = [an EXCEPT !.server = ClientModes, !.mode = "12-bit", !.state = "12-bit",
                      !.overridden = FALSE]
  /\ UNCHANGED <<owner, rowCount, ebuf>>

IsNegotiated == an.state \in Modes

(***************************************************************************)
(* A BIND-IMAGE, as far as two parsers read it: whether it is a structured *)
(* field or at least long enough, and bit 0 of three of its bytes.         *)
(***************************************************************************)
Images == [form : {"field", "simplified", "short"}, byte3 : BOOLEAN, byte5 : BOOLEAN,
           last : BOOLEAN]

ModeOf(bit) == IF bit THEN "14-bit" ELSE "12-bit"

\* AddressingModeNegotiator.parse_bind_image_addressing_mode()
EarlyMode(image) == ModeOf(image.byte3)

\* BindImageParser.parse_addressing_mode()
LateMode(image) ==
  CASE image.form = "field" -> ModeOf(image.byte5)
    [] image.form = "simplified" -> ModeOf(image.last)
    [] image.form = "short" -> NoMode

\* update_from_bind_image(): settles on the early mode, if none was negotiated.
UpdateFromBindImage(image) ==
  [an EXCEPT !.mode = IF IsNegotiated THEN @ ELSE EarlyMode(image),
             !.state = IF IsNegotiated THEN @ ELSE EarlyMode(image),
             !.server = IF \E i \in 1..Len(@) : @[i] = "14-bit"
                        THEN @ ELSE Append(@, "14-bit")]

\* The handler's handle_bind_image(): the late mode then replaces the mode and
\* leaves the state.
HandleBindImage(image) ==
  LET updated == UpdateFromBindImage(image) IN
  /\ owner = "handler" /\ LateMode(image) # NoMode
  /\ an' = [updated EXCEPT !.mode = LateMode(image),
                           !.overridden = (LateMode(image) # updated.state)]
  /\ UNCHANGED <<owner, rowCount, ebuf>>

\* The negotiator's does the same.
HandleBindImageAddressing(image) ==
  LET updated == UpdateFromBindImage(image) IN
  /\ owner = "negotiator" /\ LateMode(image) # NoMode
  /\ an' = [updated EXCEPT !.mode = LateMode(image),
                           !.overridden = (LateMode(image) # updated.state)]
  /\ UNCHANGED <<owner, rowCount, ebuf>>

Reset ==
  /\ an' = Fresh
  /\ UNCHANGED <<owner, rowCount, ebuf>>

-----------------------------------------------------------------------------
\* validate_mode_transition(): between modes every change is allowed, ...
ValidModeTransition(from, to) == from \in Modes /\ to \in Modes

\* ... and validate_addressing_mode_transition() allows the first mode too.
ValidTransition(from, to) == from = NoMode \/ ValidModeTransition(from, to)

\* Mutant: the conversion does not look at the size of the screen.
ConvertibleAnySize(mode) == ValidAddress(Address(ebuf.ext), mode)

\* convert_addressing_mode() succeeds: the screen and its cursor fit.
Convertible(mode) ==
  /\ ValidAddress(rowCount * Columns - 1, mode)
  /\ ValidAddress(Address(ebuf.ext), mode)

\* A converted copy: the cursor is where the extended cursor is.
Convert(mode) ==
  /\ ebuf' = [mode |-> mode, cursor |-> ebuf.ext, ext |-> ebuf.ext]
  /\ UNCHANGED <<owner, rowCount>>

\* transition_addressing_mode() to the mode that is set: only the handler
\* corrects the state.
TransitionToSame(mode) ==
  /\ an.mode = mode
  /\ IF owner = "handler" THEN Settle(mode) ELSE UNCHANGED an
  /\ UNCHANGED <<owner, rowCount, ebuf>>

TransitionConverts(mode) ==
  /\ an.mode # mode /\ ValidTransition(an.mode, mode)
  /\ Convertible(mode)
  /\ Settle(mode)
  /\ Convert(mode)

\* The conversion raises: the handler goes on without it; the negotiator
\* restores the mode it had, if it had one.
TransitionFails(mode) ==
  /\ an.mode # mode /\ ValidTransition(an.mode, mode)
  /\ ~Convertible(mode)
  /\ Settle(IF owner = "handler" \/ an.mode = NoMode THEN mode ELSE an.mode)
  /\ UNCHANGED <<owner, rowCount, ebuf>>

-----------------------------------------------------------------------------
OnScreen(pos) == pos[1] < rowCount /\ pos[2] < Columns

SmallerOf(a, b) == IF a < b THEN a ELSE b

\* set_position(): the extended cursor is set first; the screen's own cursor
\* is then clamped (or, if strict, left alone by an exception).
SetPosition(pos, strict) ==
  /\ ValidAddress(Address(pos), ebuf.mode)
  /\ ebuf' = [ebuf EXCEPT
       !.ext = pos,
       !.cursor = IF OnScreen(pos) THEN pos
                  ELSE IF strict THEN @
                  ELSE <<SmallerOf(pos[1], rowCount - 1), SmallerOf(pos[2], Columns - 1)>>]
  /\ UNCHANGED <<owner, an, rowCount>>

SetPositionFromAddress(a) ==
  ValidAddress(a, ebuf.mode) /\ SetPosition(Coords(a), FALSE)

\* write_char() at a position moves the screen's own cursor only.
NextCell(pos) ==
  IF pos[2] + 1 < Columns THEN <<pos[1], pos[2] + 1>>
  ELSE IF pos[1] + 1 < rowCount THEN <<pos[1] + 1, 0>> ELSE <<0, 0>>

WriteChar ==
  /\ ebuf' = [ebuf EXCEPT !.cursor = NextCell(@)]
  /\ UNCHANGED <<owner, an, rowCount>>

AddressingNext ==
  \/ \E server \in {<<>>, <<"12-bit", "14-bit">>, <<"14-bit">>} :
       ParseServerCapabilities(server)
  \/ NegotiateMode \/ HandlerNegotiatesMode \/ NegotiatorNegotiatesMode \/ Reset
  \/ \E image \in Images : HandleBindImage(image) \/ HandleBindImageAddressing(image)
  \/ \E m \in Modes :
       TransitionToSame(m) \/ TransitionConverts(m) \/ TransitionFails(m)
  \/ WriteChar
  \/ \E a \in 0..(Limit14 - 1) : SetPositionFromAddress(a)
  \/ \E c \in 0..Columns, strict \in BOOLEAN : SetPosition(<<rowCount - 1, c>>, strict)

AddressingSpec == AddressingInit /\ [][AddressingNext]_addressVars

-----------------------------------------------------------------------------
(***************************************************************************)
(* The screen buffer in use fits the mode it is in, whatever transitions   *)
(* were tried and given up; its extended cursor is an address of that      *)
(* mode, and its own cursor is on the screen as long as the extended one   *)
(* is (extended_screen_buffer.py:122-130, 246, 267-271,                    *)
(* tn3270_handler.py:842-851, negotiator.py:4301-4314).                    *)
(***************************************************************************)
ScreensAreAddressable ==
  /\ rowCount * Columns <= MaxPositions(ebuf.mode)
  /\ ValidAddress(Address(ebuf.ext), ebuf.mode)
  /\ OnScreen(ebuf.ext) => OnScreen(ebuf.cursor)

(***************************************************************************)
(* The state of the negotiation names the mode in use, through resets,     *)
(* negotiations, transitions and their rollback, unless the last change    *)
(* came from a BIND-IMAGE that named another mode                          *)
(* (addressing_negotiation.py:348-353, tn3270_handler.py:757).             *)
(***************************************************************************)
StateNamesMode ==
  /\ IsNegotiated <=> an.mode \in Modes
  /\ IsNegotiated /\ ~an.overridden => an.state = an.mode

(***************************************************************************)
(* What the two owners of an addressing negotiator keep true of their      *)
(* screens and of the negotiation together (addressing_negotiation.py,     *)
(* extended_screen_buffer.py).                                             *)
(***************************************************************************)
AddressingAgrees == ScreensAreAddressable /\ StateNamesMode
=============================================================================
