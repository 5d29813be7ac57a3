SPECIFICATION InterfaceSpec
CHECK_DEADLOCK FALSE
CONSTANTS
 InvalidRegexes = {"("}
 Spelling <- MCSpelling
 FilterNames <- MCNames
 Expressions <- MCExpressions
 SmartFilters <- MCSmart
 Classes = {"help", "sipb"}
 PuntExpressions <- MCPunts
 MaxFilters = 4
 MaxPunts = 2
 KeymapTable <- MCKeymaps
 Keys = {"ESC", "CR", ":", "r", "q", "/", "z", ".", "C-c", "C-x", "p", "n"}
 Typable = {"z", "."}
 NestedEdits = FALSE
 MaxStack = 2
 HistorySize = 2
 MaxEdits = 2
 MaxTyped = 2
 WinLines = 3
 WinCols = 3
 WrapCol = 2
 FillCol = 2
 OneLine = FALSE
 Characters <- MCCharacters
 Prompt <- MCPrompt
 MaxText = 3
 MaxKill = 1
 MaxWords = 4
 ScreenLines = 6
 MaxTypwin = 8
 MaxSettings = 2
 Lines = {"set", "bind", "BIND"}
 LowerCase <- MCLowerCase
 FirstFile <- MCFile
 MaxStartups = 3
 Msgs = {m1, m2, m3, m4}
 NoMsg = NoMsg
 CacheSize = 3
 Styles = {s1, s2}
 screen = screen
 panel = panel
 border = border
 content = content
 Windows <- MCWindows
 Screen = screen
 Children <- MCChildren
 MaxLines = 1
 MaxChanges = 5
 TabWidth = 3
 MaxNesting = 2
 Base = 4
 MAXMSGLEN = 5
 MaxAway = 3
 BlockSize = 2
 MaxResult = 6
 MaxChunk = 3
 MaxId = 6
 MaxMessages = 3
 LineCounts = {1, 2, 6}
 MaxWin = 5
INVARIANTS
 WrittenIsReadBack TablesKeepTheirWord FilterTablesAreSound ContextsServeKeys
 EditorIsSound SettingsKeepTheirWord LinesSurvive
 ConversationsStayTogether TextIsShownExactly BackPointers TextIsCurrent
 PositionsAreExact MarksLeadTheRedraw
PROPERTIES FilterCommandsMeanIt OneEditPerKey RedrawEnds
