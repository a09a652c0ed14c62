SPECIFICATION DesktopSpec
CONSTANTS
 e1=e1 
 e2=e2
 a=a
 b=b
 NoTitle=NoTitle
 Entry={e1,e2}
 Folder<-Folders
 Title={a,b}
 FileTitle=a
 t1=t1
 t2=t2
 Tag={t1,t2}
 Start<-Libraries
 OrgScenarios<-MCOrg
 MaxActs<-MCActs
 NoQuery=NoQuery
 ScreenEvents<-MCScreen
 MaxInputs=2
 d1=d1 
 d2=d2
 w1=w1
 w2=w2
 Doc={d1,d2}
 NoDoc=NoDoc
 x1=x1
 x2=x2
 ErrorText={x1,x2}
 NoError=NoError
 MaxNotes=2
 PageCount=2
 Width={w1,w2}
 FitWidth=w1
 Thumb=Thumb
 FindMargin=0
 FindBatch=1
 ViewerScenarios<-MCViewer
 MaxViews<-MCViews
 p1=p1
 p2=p2
 Pdf={p1,p2}
 RaindropScenarios<-MCRaindrop
 InLibrary<-MCIn
 MaxOrders<-MCOrders
 DesktopScenarios<-MCDesktops
INVARIANTS DesktopTypeOK TreeSound HistoryMatchesStore SearchFinds ScreenIsCurrent FinishedStays
PROPERTIES OnlyTrashDeleted ReadingKept WorkEnds
CHECK_DEADLOCK FALSE
