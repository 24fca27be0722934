------------------------------ MODULE Console -------------------------------
(***************************************************************************)
(* Tasks call vprintk (printk.c), each with a format and arguments, and    *)
(* the characters reach the terminal one by one.  A message is not printed *)
(* under a lock: tasks lose the CPU between and within characters.         *)
(***************************************************************************)
EXTENDS Terminal, Printk

CONSTANT Calls      \* the calls made together: each gives every task its
                    \* log level, its format and its arguments

VARIABLES call,     \* task -> the call it makes
          i,        \* task -> the index into the format
          todo,     \* task -> characters formatted and not yet printed
          said,     \* history: the characters of this task
          ret       \* task -> what vprintk has returned

running == "running"
vprintkVars == <<call, i, todo, said, ret>>
vars == <<tty, vprintkVars>>

Init ==
    /\ TtyInit
    /\ call \in Calls
    /\ i = [t \in Task |-> 1]
    /\ todo = [t \in Task |-> <<>>]
    /\ said = [t \in Task |-> <<>>]
    /\ ret = [t \in Task |-> running]

\* The call is between two characters.
Ready(t) == at[t] = "idle" /\ ret[t] = running

\* print and putchar: the next character of a text, in the colour of the level.
print(t) ==
    /\ Ready(t) /\ todo[t] # <<>>
    /\ LET ch == Head(todo[t])
       IN  /\ tty_puts(t, IF ch = "\n" THEN Newline
                          ELSE <<ch, log_level_to_vga_color(call[t].level)>>)
           /\ said' = [said EXCEPT ![t] = Append(@, ch)]
    /\ todo' = [todo EXCEPT ![t] = Tail(@)]
    /\ UNCHANGED <<call, i, ret>>

\* The text in front of the next '%'.
literal(t) ==
    LET fmt == call[t].fmt
        end == NextPercent(fmt, i[t])
    IN  /\ Ready(t) /\ todo[t] = <<>> /\ end > i[t]
        /\ todo' = [todo EXCEPT ![t] = SubSeq(fmt, i[t], end - 1)]
        /\ i' = [i EXCEPT ![t] = end]
        /\ UNCHANGED <<tty, call, said, ret>>

\* Mutation: what is not known is left alone, and the loop goes on.
UnknownIgnored(t) ==
    LET spec == specifier(call[t].fmt, i[t], call[t].args)
    IN  /\ Ready(t) /\ todo[t] = <<>>
        /\ CharAt(call[t].fmt, i[t]) = "%"
        /\ todo' = [todo EXCEPT ![t] = IF spec.known THEN spec.text ELSE @]
        /\ i' = [i EXCEPT ![t] = IF spec.known THEN spec.next ELSE @]
        /\ UNCHANGED <<tty, call, said, ret>>

\* A specifier; one that is not known ends the call.
conversion(t) ==
    LET spec == specifier(call[t].fmt, i[t], call[t].args)
    IN  /\ Ready(t) /\ todo[t] = <<>>
        /\ CharAt(call[t].fmt, i[t]) = "%"
        /\ \/ /\ spec.known
              /\ todo' = [todo EXCEPT ![t] = spec.text]
              /\ i' = [i EXCEPT ![t] = spec.next]
              /\ UNCHANGED ret
           \/ /\ ~ spec.known
              /\ ret' = [ret EXCEPT ![t] = "EINVAL"]
              /\ UNCHANGED <<todo, i>>
        /\ UNCHANGED <<tty, call, said>>

\* The end of the format.
return(t) ==
    /\ Ready(t) /\ todo[t] = <<>> /\ i[t] > Len(call[t].fmt)
    /\ ret' = [ret EXCEPT ![t] = "len"]
    /\ UNCHANGED <<tty, call, i, todo, said>>

vprintk(t) ==
    \/ print(t)
    \/ literal(t)
    \/ conversion(t)
    \/ return(t)
    \/ tty_step(t) /\ UNCHANGED vprintkVars

\* Every call has returned.
Returned == (\A t \in Task : ret[t] # running) /\ UNCHANGED vars

Next == (\E t \in Task : vprintk(t)) \/ Returned

\* The scheduler comes back to every task, and a handler runs to its end.
Spec == Init /\ [][Next]_vars /\ \A t \in Task : WF_vars(vprintk(t))
-----------------------------------------------------------------------------
(* Properties.                                                             *)

\* vprintk prints the text its format stands for and returns its length, or it
\* prints the text in front of the first thing that is no conversion and
\* returns an error, whatever other tasks print meanwhile: the text is put
\* together on the stack of the caller.  The smallest long long is the one
\* argument that has no such text (itoa cannot negate it).
PrintsFormat ==
    \A t \in Task :
        LET expected == Formatted(call[t].fmt, call[t].args)
        IN  /\ call[t].args.ll # LLONG_MIN => IsPrefix(said[t], expected.text)
            /\ ret[t] # running =>
                /\ ret[t] = IF expected.valid THEN "len" ELSE "EINVAL"
                /\ call[t].args.ll # LLONG_MIN => said[t] = expected.text

\* Every call of vprintk returns: no format and no order of the tasks' steps
\* keeps the loop from ending.
Returns == \A t \in Task : <>(ret[t] # running)
=============================================================================
