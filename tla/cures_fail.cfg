SPECIFICATION ShellSpec
CONSTANTS
    NoPipe = NoPipe
    Plain = Plain
    MaxAsked = 3
INVARIANTS OneOfThemCures
