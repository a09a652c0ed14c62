SPECIFICATION ShellSpec
CONSTANTS
 e1=e1
 e2=e2
 e3=e3
 None=None
 Entry={e1,e2,e3}
 Rank<-ByTitle
 Start<-Starts3
 BrowserScenarios<-MCBrowser
 MaxSteps<-MCSteps
 Absent=Absent
 Theme={"espresso","light"}
 Class={"card","sidebar"}
 State={"normal","hovered"}
 Prop={"background","top","left"}
 Token={"accent","surface"}
 Fallback<-MCFallback
 FallbackStyle<-MCFallbackStyle
 Base<-MCBase
 Bundled<-MCBundled
 UserFile={"themes","components"}
 Group<-MCGroup
 Name<-MCName
 Contents<-MCContents
 FirstFiles<-NoFiles
 StyleScenarios<-Restyles
 MaxEdits=3
 Papers<-MCPapers
 Notes<-MCNotes
 MinZoom=6
 MaxZoom=40
 ActualSize=20
 PageGutter=1
 PageGap=1
 CardWidth=7
 CardGap=1
 EditingHeight=4
 Window<-Windows
 SidebarWidth=6
 Notch=2
 PageScenarios<-MCPages
 Text<-MCText
 LineOf<-MCLineOf
 Lower<-MCLower
 Plain<-MCPlain
 WordBreak={" "}
 Queries<-MCQueries
 TextScenarios<-MCTexts
 MaxTexts<-MCMaxTexts
 ShellScenarios<-MCShells
INVARIANTS ShellTypeOK StylesSettle ViewFollows
PROPERTIES BrowserActsOnSight TextStands
CHECK_DEADLOCK FALSE
